---- MODULE Spec2Model ----
(***************************************************************************)
(* State-machine model of the rms repository: the four platform clients'   *)
(* _make_request (401 refresh-and-resend), the CDE uploader's batch         *)
(* upload/delete over a worker pool, the document retriever's batch         *)
(* processing, and the research orchestrator's publish_research workflow.   *)
(***************************************************************************)
EXTENDS Integers, Sequences, FiniteSets, TLC

\* ------------------------------------------------------------------ bounds
MaxRows == 3
MaxBatchSize == 2
MaxWorkers == 2
MaxCalls == 2
MaxTaglists == 2
MaxCdeRows == 1
MaxDocs == 3
MaxDocWorkers == 2
MaxMissing == 2
MaxAttachments == 2
MaxFileBytes == 4
MaxPartSize == 4
MaxTokens == 3
MaxHits == 2
MaxAssigns == 3
MaxItems == 2
MaxTasks == 2
\* publish_research calls made on one orchestrator
MaxOps == 3
\* attachments listed in the metadata of one document
MaxListed == 3

\* ------------------------------------------------------- transport policy
Clients == {"CDEUploader", "DocumentRetriever", "NotePublisher", "RMSBQL"}

\* A send that ends in a transport exception (timeout, connection reset)
\* instead of a response.
NoResponse == 0

\* What the platform can answer to one HTTP attempt: success, unauthorized,
\* client errors, retryable and non-retryable server errors, or no answer.
Replies == {NoResponse, 200, 401, 403, 404, 500, 503}

\* The answers exercised inside a batch (one of each kind the code tells apart).
BatchReplies == {NoResponse, 200, 401, 503}

\* Retry(total=3, backoff_factor=0.5, status_forcelist=[...]) of the CDE uploader
RetryTotal == 3
status_forcelist == {500, 502, 503, 504, 429}

\* The Retry object is built without allowed_methods, so urllib3's default
\* idempotent set applies: POST is not in it.
allowed_methods == {"HEAD", "GET", "PUT", "DELETE", "OPTIONS", "TRACE"}

\* Only the CDE uploader mounts an HTTPAdapter with a retry strategy; the other
\* clients use a plain Session (no retries).
HasRetryAdapter(c) == c = "CDEUploader"

\* The HTTP method _make_request uses: CDE posts, the retriever and the query
\* client get, the note publisher takes the method as an argument.
RequestMethods(c) ==
    CASE c = "CDEUploader" -> {"POST"}
      [] c = "NotePublisher" -> {"GET", "POST"}
      [] OTHER -> {"GET"}

\* Retry.is_retry: a status is retried only for a retryable method.
is_retry(c, m, s) ==
    HasRetryAdapter(c) /\ m \in allowed_methods /\ s \in status_forcelist

\* One HTTP attempt inside session.request: a = retries already used, s = reply.
\* "retry": the adapter sends again; "exception": a RequestException reaches
\* the caller (timeout, or retries exhausted); "response": the reply is returned.
AdapterStep(c, m, a, s) ==
    IF s = NoResponse
    THEN IF HasRetryAdapter(c) /\ m \in allowed_methods /\ a < RetryTotal
         THEN "retry" ELSE "exception"
    ELSE IF is_retry(c, m, s)
         THEN IF a < RetryTotal THEN "retry" ELSE "exception"
         ELSE "response"

\* _make_request after the first response: 401 refreshes, any other error
\* status fails raise_for_status, anything else is returned.
AfterFirstSend(s) ==
    IF s = 401 THEN "refresh" ELSE IF s >= 400 THEN "raise" ELSE "return"

\* A resend that treats a 401 like the first send does (refreshing again).
AfterResend_RefreshAgain(s) ==
    IF s = 401 THEN "refresh" ELSE IF s >= 400 THEN "raise" ELSE "return"

\* _make_request after the resend: no second 401 check, only raise_for_status.
AfterResend(s) ==
    IF s >= 400 THEN "raise" ELSE "return"

\* The handshake answered 200 without the token keys: tokens[...] raises
\* KeyError. The retriever converts it, the note publisher's
\* _refresh_credentials wraps any exception; the CDE uploader catches only
\* RequestException, so the KeyError leaves _make_request as it is.
MissingTokenError(c) ==
    IF c = "CDEUploader" THEN "KeyError" ELSE "ClientError"

\* A handler that catches only the client's own error class.
SingleCdeCatches_ClientOnly(e) == e = "ClientError"

\* upload_single_cde / delete_single_cde: except Exception catches every error
\* kind _make_request can raise.
SingleCdeCatches(e) == e \in {"ClientError", "KeyError"}

\* ------------------------------------------------------------------ state
VARIABLES
    client,       \* which platform client the calls are made on
    platform,     \* the answers the platform may give in this run
    method,       \* HTTP method of the original request
    op,           \* "upload" | "delete" | "none" (a direct _make_request call)
    cols,         \* columns of the input DataFrame
    nRows,        \* len(df)
    batch_size,
    max_workers,
    mpc,          \* position of the calling thread
    batch,        \* batch_num of the batch being processed (0 before the loop)
    results,      \* the results list of the batch call
    completed,    \* futures of the current batch in completion order, not yet yielded
    yielded,      \* rows whose future as_completed has yielded to the calling thread
    sleeps,       \* number of time.sleep(batch_delay) calls made
    calls,        \* direct _make_request calls started on the client so far
    rpc,          \* per row: position of its task
    attempt,      \* per row: retries the adapter used in the current session call
    replies,      \* per row: replies received for the original request, in order
    reauths,      \* per row: calls of __refresh_credentials
    refreshed,    \* per row: TRUE once __refresh_credentials has returned normally
    exc,          \* per row: the error _make_request raised, "none" if none
    result,       \* per row: the CDEUploadResult, or a marker
    \* --- ResearchContentOrchestrator.publish_research
    opc,            \* position of publish_research
    template,       \* input: the template class (by template_name)
    data_fields,    \* input: the attributes the data object has
    nTaglists,      \* input: len(publishing_config.taglists)
    upload_cde,     \* input: the upload_cde argument
    cde_rows,       \* input: rows prepare_cde_data will return
    clientsBuilt,   \* which of note_publisher / cde_uploader / bql_client are set
    trace,          \* calls made so far, in order
    tags,           \* entities resolved so far, in order
    shareables,     \* the resolved community, once found
    okeys,          \* keys of the results mapping
    oerror,         \* results['error'], NoError while absent
    oraised,        \* the exception that left publish_research, NoError if none
    filesOnDisk,    \* document files written so far
    notePublished,  \* the platform accepted the create-note request
    cdeCalls,       \* arguments of the batch_upload_cde calls made, in order
    upload_results, \* results['cde']['upload_results']: per row, how its upload ended
    \* --- DocumentRetriever.batch_process_documents
    docs,           \* input: the list of document ids
    doc_workers,    \* input: max_workers
    dmpc,           \* position of the calling thread
    dpc,            \* per submitted future: position of its task
    dout,           \* per submitted future: what the task returned or raised
    dcompleted,     \* futures in completion order, not yet yielded
    dresults        \* the results mapping: a function from document ids to results

\* --- a template method called directly (validate_data / generate_document)
VARIABLES
    tcall,          \* input: the method called
    tpc,            \* position of the call
    terr,           \* the exception the call raised, NoError if none
    tfiles,         \* files the call has written
    tkeys           \* keys of the mapping generate_document returned

\* --- constructing a platform client (configuration, then the handshake)
VARIABLES
    kclient,        \* input: the class being constructed
    has_path,       \* input: config_path is given
    pathf,          \* input: the file at config_path
    basef,          \* input: rms_config.json of the configuration directory
    envf,           \* input: rms_config.<environment>.json of that directory
    kpc,            \* position of the constructor
    kconfig,        \* what load_and_validate_config returned or raised
    ksent,          \* handshake requests sent to the platform so far
    kattempt,       \* retries the adapter used for the handshake
    kused,          \* an operation has been issued on the constructed client
    kerr            \* the exception that left the constructor, "none" if none

ctorVars == <<kclient, has_path, pathf, basef, envf, kpc, kconfig, ksent,
              kattempt, kused, kerr>>
\* --- NotePublisher.create_note with its attachments
VARIABLES
    attachments,    \* input: per file path, the file's size in bytes (Unreadable if open fails)
    part_size_reply, \* input: the partSize the platform reports (DEFAULT_PART_SIZE: none)
    npc,            \* position of create_note
    cur,            \* index of the file path being staged
    staged,         \* per staged file, in order: its part size and attachment id
    next_part,      \* part_index of the next part to upload
    sent,           \* requests sent to the platform, in order, with their outcome
    payload,        \* note_data["attachments"] of the create-note request
    nerr            \* the exception that left create_note, "none" if none

noteVars == <<attachments, part_size_reply, npc, cur, staged, next_part, sent, payload, nerr>>
\* --- NotePublisher.find_corp_ticker
VARIABLES
    ticker,         \* input: the ticker as typed, as its whitespace-separated words
    hits,           \* input: the SECURITIES items the search answers with
    fpc,            \* position of find_corp_ticker
    fsearches,      \* search requests sent to the platform
    fresult,        \* what find_corp_ticker returned
    ferr            \* the exception that left find_corp_ticker, "none" if none

tickVars == <<ticker, hits, fpc, fsearches, fresult, ferr>>
\* --- a BBG_USER record: construction, then assignments to its fields
VARIABLES
    uargs,          \* input: the type and subtype given to BBG_USER(...)
    upc,            \* position: before construction, live record, construction failed
    urec,           \* the record's fields, NoRecord if there is none
    uassigns,       \* assignments made to the record so far
    uerr            \* what the last construction or assignment raised, "none" if nothing

userVars == <<uargs, upc, urec, uassigns, uerr>>
\* --- RMSBQL.executeBQLRequest
VARIABLES
    bql_res,        \* input: what submitBQLRequest answers
    bpc,            \* position of executeBQLRequest
    bidx,           \* index of the result item being processed
    response_frames_dict, \* the mapping being built: per name, the item its frame came from
    berr            \* the exception that left executeBQLRequest, "none" if none

bqlVars == <<bql_res, bpc, bidx, response_frames_dict, berr>>
entVars == <<tickVars, userVars, bqlVars>>
\* --- write requests of concurrent tasks on one client's shared credentials
VARIABLES
    wclient,        \* input: the client the tasks share
    ntasks,         \* input: tasks running at the same time
    credentials,    \* the client's synchronizer token and URI, each named by the
                    \* handshake that returned it
    handshakes,     \* handshake responses received so far (the constructor's is 1)
    wpc,            \* per task: position in the write operation
    body,           \* per task: the token and URI put in its request
    fresh,          \* per task: the handshake its re-authentication received, 0 if none
    wsent           \* per task: the requests it sent, in order

credVars == <<wclient, ntasks, credentials, handshakes, wpc, body, fresh, wsent>>
\* --- DocumentRetriever.transplantDocAttachments
VARIABLES
    xatts,          \* input: the attachments of the document's metadata
    file_types,     \* input: the file_types argument
    xpc,            \* position of transplantDocAttachments
    xidx,           \* index, in the filtered list, of the attachment in turn
    saved_attachments, \* the list being built
    xdisk,          \* paths of the files written
    xret,           \* the value returned
    xerr            \* the exception that left the call, "none" if none

xferVars == <<xatts, file_types, xpc, xidx, saved_attachments, xdisk, xret, xerr>>
lateVars == <<credVars, xferVars>>
\* AUX-VARIABLES
auxVars == <<ctorVars, noteVars, entVars, lateVars>>

reqVars == <<rpc, attempt, replies, reauths, refreshed, exc, result>>
mainVars == <<mpc, batch, results, completed, yielded, sleeps, calls>>
cdeInputVars == <<client, platform, method, op, cols, nRows, batch_size, max_workers>>
tmplVars == <<tcall, tpc, terr, tfiles, tkeys>>
orchVars == <<opc, template, data_fields, nTaglists, upload_cde, cde_rows,
              clientsBuilt, trace, tags, shareables, okeys, oerror, oraised,
              filesOnDisk, notePublished, cdeCalls, upload_results, tmplVars>>
docVars == <<docs, doc_workers, dmpc, dpc, dout, dcompleted, dresults>>
\* everything a CDE client action leaves alone besides its own state
inputVars == <<cdeInputVars, orchVars, docVars, auxVars>>
cdeVars == <<reqVars, mainVars, cdeInputVars>>

Rows == 1..MaxRows
required_columns == {"parsekey", "field", "date", "value"}

NoResult == [row |-> 0, success |-> FALSE, value |-> "none", error |-> "none"]

ReqInit ==
    /\ attempt = [r \in Rows |-> 0]
    /\ replies = [r \in Rows |-> <<>>]
    /\ reauths = [r \in Rows |-> 0]
    /\ refreshed = [r \in Rows |-> FALSE]
    /\ exc = [r \in Rows |-> "none"]
    /\ result = [r \in Rows |-> NoResult]

\* ---------------------------------------------- parts a run does not use
NoError == [type |-> "none", entity |-> "none", index |-> 0]

OrchIdle ==
    /\ opc = "idle"
    /\ template = "thesis"
    /\ data_fields = {}
    /\ tcall = "none"
    /\ tpc = "idle"
    /\ terr = NoError
    /\ tfiles = {}
    /\ tkeys = {}
    /\ nTaglists = 0
    /\ upload_cde = FALSE
    /\ cde_rows = 0
    /\ clientsBuilt = {}
    /\ trace = <<>>
    /\ tags = <<>>
    /\ shareables = <<>>
    /\ okeys = {}
    /\ oerror = NoError
    /\ oraised = NoError
    /\ filesOnDisk = {}
    /\ notePublished = FALSE
    /\ cdeCalls = <<>>
    /\ upload_results = <<>>

DocIdle ==
    /\ docs = <<>>
    /\ doc_workers = 1
    /\ dmpc = "idle"
    /\ dpc = <<>>
    /\ dout = <<>>
    /\ dcompleted = <<>>
    /\ dresults = <<>>

CdeIdle ==
    /\ client = "CDEUploader"
    /\ platform = {}
    /\ method = "POST"
    /\ op = "none"
    /\ cols = required_columns
    /\ nRows = 0
    /\ batch_size = 1
    /\ max_workers = 1
    /\ mpc = "idle"
    /\ batch = 0
    /\ results = <<>>
    /\ completed = <<>>
    /\ yielded = {}
    /\ sleeps = 0
    /\ calls = 0
    /\ rpc = [r \in Rows |-> "idle"]
    /\ ReqInit

\* A path with no file behind it.
NoFile == [state |-> "missing", map |-> <<>>]

\* The loader has not run.
NotLoaded == [ok |-> FALSE, config |-> <<>>, error |-> "none", key |-> "none",
              reads |-> <<>>]

CtorIdle ==
    /\ kclient = "CDEUploader"
    /\ has_path = FALSE
    /\ pathf = NoFile
    /\ basef = NoFile
    /\ envf = NoFile
    /\ kpc = "idle"
    /\ kconfig = NotLoaded
    /\ ksent = 0
    /\ kattempt = 0
    /\ kused = FALSE
    /\ kerr = "none"

NoteIdle ==
    /\ attachments = <<>>
    /\ part_size_reply = 1
    /\ npc = "idle"
    /\ cur = 1
    /\ staged = <<>>
    /\ next_part = 0
    /\ sent = <<>>
    /\ payload = <<>>
    /\ nerr = "none"

\* No item returned (Python's None).
NoHit == [metadata |-> "None", subtype |-> "None", type |-> "None", index |-> 0]

TickIdle ==
    /\ ticker = <<>>
    /\ hits = <<>>
    /\ fpc = "idle"
    /\ fsearches = 0
    /\ fresult = NoHit
    /\ ferr = "none"

NoRecord == [type |-> "none", subtype |-> "none", extra |-> FALSE]

UserIdle ==
    /\ uargs = NoRecord
    /\ upc = "idle"
    /\ urec = NoRecord
    /\ uassigns = 0
    /\ uerr = "none"

NoBqlResponse == [state |-> "none", errorMessages |-> FALSE, results |-> <<>>]

BqlIdle ==
    /\ bql_res = NoBqlResponse
    /\ bpc = "idle"
    /\ bidx = 1
    /\ response_frames_dict = <<>>
    /\ berr = "none"

TickOff == UserIdle /\ BqlIdle
UserOff == TickIdle /\ BqlIdle
BqlOff == TickIdle /\ UserIdle
EntIdle == TickIdle /\ UserIdle /\ BqlIdle

Tasks == 1..MaxTasks
NoBody == [token |-> 0, uri |-> 0]

CredIdle ==
    /\ wclient = "CDEUploader"
    /\ ntasks = 0
    /\ credentials = [token |-> 1, uri |-> 1]
    /\ handshakes = 1
    /\ wpc = [t \in Tasks |-> "idle"]
    /\ body = [t \in Tasks |-> NoBody]
    /\ fresh = [t \in Tasks |-> 0]
    /\ wsent = [t \in Tasks |-> <<>>]

\* Python's None as a returned value.
None == <<"None">>

\* A file_types argument: a str, a list of str, or a value of another type.
StrArg(x) == [kind |-> "str", val |-> <<x>>]
ListArg(xs) == [kind |-> "list", val |-> xs]
OtherArg == [kind |-> "other", val |-> <<>>]

XferIdle ==
    /\ xatts = <<>>
    /\ file_types = StrArg("All")
    /\ xpc = "idle"
    /\ xidx = 1
    /\ saved_attachments = <<>>
    /\ xdisk = {}
    /\ xret = None
    /\ xerr = "none"

LateIdle == CredIdle /\ XferIdle

\* AUX-IDLE
AuxIdle == CtorIdle /\ NoteIdle /\ EntIdle /\ LateIdle

\* -------------------------------------------------------- _make_request
\* One HTTP attempt of the original request (the first send or the resend).
Send(r) ==
    /\ rpc[r] \in {"first", "second"}
    /\ \E s \in platform :
        LET d == AdapterStep(client, method, attempt[r], s)
            next == IF d = "exception" THEN "raise"
                    ELSE IF rpc[r] = "first" THEN AfterFirstSend(s)
                    ELSE AfterResend(s)
        IN /\ replies' = [replies EXCEPT ![r] = Append(@, s)]
           /\ IF d = "retry"
              THEN /\ attempt' = [attempt EXCEPT ![r] = @ + 1]
                   /\ UNCHANGED <<rpc, exc, reauths>>
              ELSE /\ attempt' = [attempt EXCEPT ![r] = 0]
                   /\ rpc' = [rpc EXCEPT ![r] =
                                CASE next = "refresh" -> "refresh"
                                  [] next = "raise" -> "raised"
                                  [] OTHER -> "returned"]
                   /\ exc' = [exc EXCEPT ![r] =
                                IF next = "raise" THEN "ClientError" ELSE @]
                   /\ reauths' = [reauths EXCEPT ![r] =
                                IF next = "refresh" THEN @ + 1 ELSE @]
    /\ UNCHANGED <<refreshed, result, mainVars, inputVars>>

\* One HTTP attempt of the synchronizer GET inside __refresh_credentials /
\* _authenticate (every client but the query client, whose __buildCredentials
\* sends nothing).
Handshake(r) ==
    /\ rpc[r] = "refresh"
    /\ client # "RMSBQL"
    /\ \E s \in platform, hasTokens \in BOOLEAN :
        LET d == AdapterStep(client, "GET", attempt[r], s)
        IN /\ IF d = "retry"
              THEN /\ attempt' = [attempt EXCEPT ![r] = @ + 1]
                   /\ UNCHANGED <<rpc, exc>>
              ELSE /\ attempt' = [attempt EXCEPT ![r] = 0]
                   /\ IF d = "exception" \/ s >= 400
                      THEN /\ rpc' = [rpc EXCEPT ![r] = "raised"]
                           /\ exc' = [exc EXCEPT ![r] = "ClientError"]
                      ELSE IF ~hasTokens
                      THEN /\ rpc' = [rpc EXCEPT ![r] = "raised"]
                           /\ exc' = [exc EXCEPT ![r] = MissingTokenError(client)]
                      ELSE /\ rpc' = [rpc EXCEPT ![r] = "second"]
                           /\ UNCHANGED exc
           /\ refreshed' = [refreshed EXCEPT ![r] =
                              d = "response" /\ s < 400 /\ hasTokens]
    /\ UNCHANGED <<replies, reauths, result, mainVars, inputVars>>

\* RMSBQL.__refresh_credentials: re-reads the configuration and updates the
\* session header; no request is sent and nothing can fail.
RefreshLocal(r) ==
    /\ rpc[r] = "refresh"
    /\ client = "RMSBQL"
    /\ rpc' = [rpc EXCEPT ![r] = "second"]
    /\ refreshed' = [refreshed EXCEPT ![r] = TRUE]
    /\ UNCHANGED <<attempt, replies, reauths, exc, result,
                   mainVars, inputVars>>

\* --------------------------------- upload_single_cde / delete_single_cde
\* The task of row r returns: the response or the caught exception becomes a
\* CDEUploadResult and the future completes. An exception the handler does not
\* catch would complete the future with that exception instead.
SingleCde(r) ==
    /\ mpc # "direct"
    /\ rpc[r] \in {"returned", "raised"}
    /\ IF rpc[r] = "returned"
       THEN /\ result' = [result EXCEPT ![r] =
                    [row |-> r, success |-> TRUE,
                     value |-> IF op = "delete" THEN "deleted" ELSE "value",
                     error |-> "none"]]
            /\ rpc' = [rpc EXCEPT ![r] = "done"]
       ELSE IF SingleCdeCatches(exc[r])
       THEN /\ result' = [result EXCEPT ![r] =
                    [row |-> r, success |-> FALSE,
                     value |-> IF op = "delete" THEN "not deleted" ELSE "value",
                     error |-> exc[r]]]
            /\ rpc' = [rpc EXCEPT ![r] = "done"]
       ELSE /\ rpc' = [rpc EXCEPT ![r] = "crashed"]
            /\ UNCHANGED result
    /\ completed' = Append(completed, r)
    /\ UNCHANGED <<attempt, replies, reauths, refreshed, exc,
                   mpc, batch, results, yielded, sleeps, calls, inputVars>>

\* ------------------------------------ batch_upload_cde / batch_delete_cde
\* A split that drops the last, partial batch.
NumBatches_Floor == nRows \div batch_size

\* A split that puts every row into the first batch.
BatchOf_NoSplit(r) == 1

\* batches = [df[i:i + batch_size] for i in range(0, len(df), batch_size)]
NumBatches == (nRows + batch_size - 1) \div batch_size
BatchOf(r) == ((r - 1) \div batch_size) + 1
BatchRows(k) == {r \in 1..nRows : BatchOf(r) = k}

\* Tasks a pool thread is executing.
Running == {r \in Rows : rpc[r] \in {"first", "refresh", "second", "returned", "raised"}}

\* A check satisfied by any one of the required columns.
HasRequiredColumns_Any(c) == \E col \in required_columns : col \in c

\* The column check that opens both batch operations.
HasRequiredColumns(c) == \A col \in required_columns : col \in c

\* The call: validate the columns, then split into batches.
BatchCall ==
    /\ mpc = "call"
    /\ IF ~HasRequiredColumns(cols)
       THEN mpc' = "raised" /\ UNCHANGED batch
       ELSE IF NumBatches = 0
       THEN mpc' = "tally" /\ UNCHANGED batch
       ELSE mpc' = "submit" /\ batch' = 1
    /\ UNCHANGED <<results, completed, yielded, sleeps, calls, reqVars, inputVars>>

\* executor.submit for the next row of the batch, in row order (the dict
\* comprehension over batch_df.iterrows()).
Submit ==
    /\ mpc = "submit"
    /\ LET idle == {r \in BatchRows(batch) : rpc[r] = "idle"}
           r == CHOOSE x \in idle : \A y \in idle : x <= y
       IN /\ idle # {}
          /\ rpc' = [rpc EXCEPT ![r] = "queued"]
          /\ mpc' = IF idle = {r} THEN "collect" ELSE "submit"
    /\ UNCHANGED <<attempt, replies, reauths, refreshed, exc, result,
                   batch, results, completed, yielded, sleeps, calls, inputVars>>

\* A pool thread takes the oldest queued task (the work queue is FIFO); at
\* most max_workers tasks run at a time.
WorkerStart(r) ==
    /\ rpc[r] = "queued"
    /\ \A y \in Rows : rpc[y] = "queued" => r <= y
    /\ Cardinality(Running) < max_workers
    /\ rpc' = [rpc EXCEPT ![r] = "first"]
    /\ UNCHANGED <<attempt, replies, reauths, refreshed, exc, result,
                   mainVars, inputVars>>

\* A list that takes each new result at its front.
AppendResult_Front(res, x) == <<x>> \o res

\* results.append(result)
AppendResult(res, x) == Append(res, x)

\* One turn of the as_completed loop: future.result() is appended; a future
\* that holds an exception is only reported.
Collect ==
    /\ mpc = "collect"
    /\ completed # <<>>
    /\ LET r == Head(completed)
       IN /\ results' = IF rpc[r] = "done" THEN AppendResult(results, result[r])
                        ELSE results
          /\ yielded' = yielded \cup {r}
          /\ mpc' = IF BatchRows(batch) \subseteq (yielded \cup {r})
                    THEN "exit" ELSE "collect"
    /\ completed' = Tail(completed)
    /\ UNCHANGED <<batch, sleeps, calls, reqVars, inputVars>>

\* A delay after every batch, the last included.
SleepsAfter_Every(k) == TRUE

\* if batch_num < len(batches): time.sleep(batch_delay)
SleepsAfter(k) == k < NumBatches

\* Leaving the with block: shutdown(wait=True) returns once every task of the
\* batch has finished; then the loop decides whether to sleep.
ExitPool ==
    /\ mpc = "exit"
    /\ \A r \in BatchRows(batch) : rpc[r] \in {"done", "crashed"}
    /\ mpc' = IF SleepsAfter(batch) THEN "sleep" ELSE "tally"
    /\ UNCHANGED <<batch, results, completed, yielded, sleeps, calls, reqVars, inputVars>>

\* time.sleep(batch_delay), then the next batch.
Sleep ==
    /\ mpc = "sleep"
    /\ sleeps' = sleeps + 1
    /\ batch' = batch + 1
    /\ mpc' = "submit"
    /\ UNCHANGED <<results, completed, yielded, calls, reqVars, inputVars>>

\* The final tally and return results.
Return ==
    /\ mpc = "tally"
    /\ mpc' = "returned"
    /\ UNCHANGED <<batch, results, completed, yielded, sleeps, calls, reqVars, inputVars>>

\* successful / failed as the tally computes them:
\* sum(1 for r in results if r.success) and total_entries - successful.
Successful == Cardinality({i \in 1..Len(results) : results[i].success})
Failed == nRows - Successful

ColumnSets ==
    {required_columns, required_columns \ {"value"}, {"parsekey", "field"}}

InitBatch ==
    /\ client = "CDEUploader"
    /\ platform = BatchReplies
    /\ method = "POST"
    /\ op \in {"upload", "delete"}
    /\ cols \in ColumnSets
    /\ nRows \in 0..MaxRows
    /\ batch_size \in 1..MaxBatchSize
    /\ max_workers \in 1..MaxWorkers
    /\ mpc = "call"
    /\ batch = 0
    /\ results = <<>>
    /\ completed = <<>>
    /\ yielded = {}
    /\ sleeps = 0
    /\ calls = 0
    /\ rpc = [r \in Rows |-> "idle"]
    /\ ReqInit
    /\ OrchIdle
    /\ DocIdle
    /\ AuxIdle

NextBatch ==
    \/ BatchCall
    \/ Submit
    \/ \E r \in Rows : WorkerStart(r)
    \/ \E r \in Rows : Send(r)
    \/ \E r \in Rows : Handshake(r)
    \/ \E r \in Rows : SingleCde(r)
    \/ Collect
    \/ ExitPool
    \/ Sleep
    \/ Return

\* ------------------------------------------- a direct _make_request call
InitReq ==
    /\ client \in Clients
    /\ platform = Replies
    /\ method \in RequestMethods(client)
    /\ op = "none"
    /\ cols = required_columns
    /\ nRows = 1
    /\ batch_size = 1
    /\ max_workers = 1
    /\ mpc = "direct"
    /\ batch = 0
    /\ results = <<>>
    /\ completed = <<>>
    /\ yielded = {}
    /\ sleeps = 0
    /\ calls = 1
    /\ rpc = [r \in Rows |-> IF r = 1 THEN "first" ELSE "idle"]
    /\ ReqInit
    /\ OrchIdle
    /\ DocIdle
    /\ AuxIdle

\* The caller makes another _make_request call on the same client.
NewCall ==
    /\ mpc = "direct"
    /\ rpc[1] \in {"returned", "raised"}
    /\ calls < MaxCalls
    /\ calls' = calls + 1
    /\ rpc' = [rpc EXCEPT ![1] = "first"]
    /\ attempt' = [attempt EXCEPT ![1] = 0]
    /\ replies' = [replies EXCEPT ![1] = <<>>]
    /\ reauths' = [reauths EXCEPT ![1] = 0]
    /\ refreshed' = [refreshed EXCEPT ![1] = FALSE]
    /\ exc' = [exc EXCEPT ![1] = "none"]
    /\ UNCHANGED <<result, mpc, batch, results, completed, yielded, sleeps,
                   inputVars>>

NextReq ==
    \/ NewCall
    \/ Send(1)
    \/ Handshake(1)
    \/ RefreshLocal(1)

\* ------------------------------ ResearchContentOrchestrator.publish_research
Err(type, entity, index) == [type |-> type, entity |-> entity, index |-> index]
Event(call, arg, out) == [call |-> call, arg |-> arg, out |-> out]

\* _initialize_clients builds the missing clients in this order.
ClientOrder == <<"note_publisher", "cde_uploader", "bql_client">>
AllClients == {ClientOrder[i] : i \in 1..Len(ClientOrder)}

\* An initialisation that constructs every client on every call.
MissingClients_All(built) == ClientOrder

\* The clients _initialize_clients constructs: those whose attribute `is None`.
MissingClients(built) == SelectSeq(ClientOrder, LAMBDA c : c \notin built)

\* What one find_* call can do: return a record, return None, or raise.
LookupOutcomes == {"found", "absent", "error"}

\* A handler that records the error and returns the results instead.
ExceptHandler_Swallow(e) == [error |-> e, raised |-> NoError, pc |-> "returned"]

\* except Exception as e: results['error'] = str(e); raise
ExceptHandler(e) == [error |-> e, raised |-> e, pc |-> "raised"]

\* A guard that lets an absent entity through.
Unresolved_Ignored(o) == FALSE

\* if not security / author / taglist / community: raise ValueError(...)
Unresolved(o) == o # "found"

\* A create_note that reports a failure in its return value.
create_note_raises_Never(o) == FALSE

\* create_note raises unless the request succeeded and its body decoded.
create_note_raises(o) == o # "ok"

\* An exception leaves the try block of publish_research.
Raise(e) ==
    LET h == ExceptHandler(e)
    IN /\ okeys' = okeys \cup {"error"}
       /\ oerror' = h.error
       /\ oraised' = h.raised
       /\ opc' = h.pc

NoRaise == UNCHANGED <<oerror, oraised>>

\* what publish_research reads but never changes, and the state of other calls
orchInputs == <<template, data_fields, nTaglists, upload_cde, cde_rows, tmplVars>>

\* The registered templates, by template_name.
Templates == {"thesis", "light_update", "earnings_preview", "company_model"}

\* required_data_fields of each template, in the order of the list.
required_data_fields(t) ==
    CASE t = "thesis" -> <<"company_info", "recommendation", "thesis_text",
                           "financials_df", "portfolio_df">>
      [] t = "light_update" -> <<"company_info", "recommendation">>
      [] t = "earnings_preview" -> <<"company_info", "recommendation",
                                     "earnings_date", "estimates">>
      [] t = "company_model" -> <<"company_info", "recommendation">>

\* The data objects tried: a template's complete data class with up to
\* MaxMissing of its attributes removed.
FieldSet(t) == {required_data_fields(t)[i] : i \in DOMAIN required_data_fields(t)}
DataObjects ==
    UNION {{FieldSet(t) \ D : D \in {X \in SUBSET FieldSet(t) : Cardinality(X) <= MaxMissing}}
           : t \in Templates}

\* ValueError(f"Template {self.template_name} requires field: {field}")
ValidationError(t, f) ==
    [type |-> "ValueError", entity |-> f, index |-> 0, template |-> t]

\* A check that looks at the first required field only.
validate_data_FirstFieldOnly(t, fields) ==
    IF Head(required_data_fields(t)) \in fields
    THEN NoError
    ELSE ValidationError(t, Head(required_data_fields(t)))

\* BaseTemplate.validate_data: the exception it raises, NoError if it returns.
validate_data(t, fields) ==
    LET missing == SelectSeq(required_data_fields(t), LAMBDA f : f \notin fields)
    IN IF missing = <<>> THEN NoError ELSE ValidationError(t, Head(missing))

\* The output_file_types property of each template.
output_file_types(t) == IF t = "company_model" THEN {"xlsx"} ELSE {"docx", "pdf"}

\* The files generate_document writes: the document first, then its pdf.
OutputFiles(t) == IF t = "company_model" THEN <<"xlsx", "pdf">> ELSE <<"docx", "pdf">>

\* Files on disk after generate_document ended with outcome o: both, the
\* document alone when the pdf conversion failed, none when it failed earlier.
FilesWritten(t, o) ==
    CASE o = "ok" -> {OutputFiles(t)[1], OutputFiles(t)[2]}
      [] o = "partial" -> {OutputFiles(t)[1]}
      [] OTHER -> {}

\* Keys of the mapping generate_document returns.
ReturnedKeys(t) == {OutputFiles(t)[i] : i \in DOMAIN OutputFiles(t)}

\* A caller invokes template.validate_data(data) or
\* template.generate_document(data, output_filename) directly.
TemplateCall ==
    /\ tpc = "call"
    /\ LET e == validate_data(template, data_fields)
       IN IF e # NoError
          THEN /\ tpc' = "raised"
               /\ terr' = e
               /\ UNCHANGED <<tfiles, tkeys>>
          ELSE IF tcall = "validate_data"
          THEN /\ tpc' = "returned"
               /\ UNCHANGED <<terr, tfiles, tkeys>>
          ELSE \E o \in {"ok", "raised", "partial"} :
               /\ tfiles' = tfiles \cup FilesWritten(template, o)
               /\ tkeys' = IF o = "ok" THEN ReturnedKeys(template) ELSE tkeys
               /\ tpc' = IF o = "ok" THEN "returned" ELSE "raised"
               /\ terr' = IF o = "ok" THEN NoError
                          ELSE Err("GenerationError", "documents", 0)
    /\ UNCHANGED <<tcall, opc, template, data_fields, nTaglists, upload_cde, cde_rows,
                   clientsBuilt, trace, tags, shareables, okeys, oerror, oraised,
                   filesOnDisk, notePublished, cdeCalls, upload_results, cdeVars, docVars,
                   auxVars>>

\* template = template_type(style_config); template.validate_data(data)
ValidateData ==
    /\ opc = "validate"
    /\ IF validate_data(template, data_fields) = NoError
       THEN /\ trace' = Append(trace, Event("validate_data", 0, "ok"))
            /\ opc' = "generate"
            /\ UNCHANGED okeys /\ NoRaise
       ELSE /\ trace' = Append(trace, Event("validate_data", 0, "raised"))
            /\ Raise(validate_data(template, data_fields))
    /\ UNCHANGED <<orchInputs, cdeCalls, upload_results, clientsBuilt, tags, shareables,
                   filesOnDisk,
                   notePublished, cdeVars, docVars, auxVars>>

\* Step 1: template.generate_document writes the docx, then converts it to
\* pdf; it can fail before writing anything or after the docx is on disk.
GenerateDocument ==
    /\ opc = "generate"
    /\ \E o \in {"ok", "raised", "partial"} :
        /\ trace' = Append(trace, Event("generate_document", 0, o))
        /\ filesOnDisk' = filesOnDisk \cup FilesWritten(template, o)
        /\ IF o = "ok"
           THEN /\ okeys' = okeys \cup {"documents"}
                /\ opc' = "clients"
                /\ NoRaise
           ELSE Raise(Err("GenerationError", "documents", 0))
    /\ UNCHANGED <<orchInputs, cdeCalls, upload_results, clientsBuilt, tags, shareables, notePublished,
                   cdeVars, docVars, auxVars>>

\* Step 2 opens with _initialize_clients: each client that is still None is
\* constructed, in order; a constructor that raises leaves the earlier ones set.
InitializeClients ==
    /\ opc = "clients"
    /\ LET missing == MissingClients(clientsBuilt)
       IN \E k \in 0..Len(missing) :
            /\ clientsBuilt' = clientsBuilt \cup {missing[i] : i \in 1..k}
            /\ IF k = Len(missing)
               THEN /\ trace' = Append(trace, Event("_initialize_clients", k, "ok"))
                    /\ opc' = "security"
                    /\ UNCHANGED okeys /\ NoRaise
               ELSE /\ trace' = Append(trace, Event("_initialize_clients", k, "raised"))
                    /\ Raise(Err("InitError", missing[k + 1], 0))
    /\ UNCHANGED <<orchInputs, cdeCalls, upload_results, tags, shareables, filesOnDisk, notePublished,
                   cdeVars, docVars, auxVars>>

\* One lookup of create_note_tags_and_shareables: the find_* call, then the
\* `if not ...: raise ValueError` that follows it.
Lookup(call, entity, index, o, nextpc) ==
    /\ trace' = Append(trace, Event(call, index, o))
    /\ IF o = "error"
       THEN /\ Raise(Err("NotePublisherError", entity, index))
            /\ UNCHANGED <<tags, shareables>>
       ELSE IF Unresolved(o)
       THEN /\ Raise(Err("ValueError", entity, index))
            /\ UNCHANGED <<tags, shareables>>
       ELSE /\ IF entity = "community"
               THEN /\ shareables' = <<[entity |-> entity, index |-> index, out |-> o]>>
                    /\ okeys' = okeys \cup {"entities"}
                    /\ UNCHANGED tags
               ELSE /\ tags' = Append(tags, [entity |-> entity, index |-> index, out |-> o])
                    /\ UNCHANGED <<shareables, okeys>>
            /\ opc' = nextpc
            /\ NoRaise
    /\ UNCHANGED <<orchInputs, cdeCalls, upload_results, clientsBuilt, filesOnDisk, notePublished,
                   cdeVars, docVars, auxVars>>

\* create_note_tags_and_shareables: _initialize_clients (nothing left to
\* build), then the primary security.
FindSecurity ==
    /\ opc = "security"
    /\ clientsBuilt = AllClients
    /\ \E o \in LookupOutcomes :
        Lookup("find_security", "security", 0, o, "author")

FindAuthor ==
    /\ opc = "author"
    /\ \E o \in LookupOutcomes :
        Lookup("find_user", "author", 0, o,
               IF nTaglists > 0 THEN "taglist" ELSE "community")

\* for taglist_mapping in config.taglists: the next mapping, in order
FindTaglist ==
    /\ opc = "taglist"
    /\ LET i == Len(tags) - 1
       IN \E o \in LookupOutcomes :
            Lookup("find_taglist", "taglist", i, o,
                   IF i < nTaglists THEN "taglist" ELSE "community")

\* the community; then tags and shareables are returned and recorded
FindCommunity ==
    /\ opc = "community"
    /\ \E o \in LookupOutcomes :
        Lookup("find_community", "community", 0, o, "note")

\* Step 3: the as_of_date conversion, then create_note. The platform may
\* accept the note and the call still raise (the response body does not decode).
CreateNote ==
    /\ opc = "note"
    /\ \E o \in {"ok", "bad_date", "rejected", "published_undecoded"} :
        IF o = "bad_date"
        THEN /\ trace' = Append(trace, Event("strptime", 0, "raised"))
             /\ Raise(Err("ValueError", "as_of_date", 0))
             /\ UNCHANGED notePublished
        ELSE /\ notePublished' = (o \in {"ok", "published_undecoded"})
             /\ IF create_note_raises(o)
                THEN /\ trace' = Append(trace, Event("create_note", 0, "raised"))
                     /\ Raise(Err("NotePublisherError", "note", 0))
                ELSE /\ trace' = Append(trace, Event("create_note", 0, o))
                     /\ okeys' = okeys \cup {"note"}
                     /\ opc' = "cde"
                     /\ NoRaise
    /\ UNCHANGED <<orchInputs, cdeCalls, upload_results, clientsBuilt, tags, shareables,
                   filesOnDisk,
                   cdeVars, docVars, auxVars>>

\* batch_upload_cde(cde_df, max_workers=10, batch_size=25)
OrchMaxWorkers == 10
OrchBatchSize == 25

\* An emptiness test that never says empty.
df_empty_Never(rows) == FALSE

\* cde_df.empty
df_empty(rows) == rows = 0

\* How the request of one row can end inside batch_upload_cde.
RowErrors == {"none", "ClientError", "KeyError"}

\* A row whose failure leaves batch_upload_cde as an exception.
RowResult_Propagates(e) == IF e = "none" THEN "success" ELSE "raise"

\* What a row contributes to the list batch_upload_cde returns: the result of
\* upload_single_cde, or nothing when its future holds an exception (the
\* as_completed loop only reports it).
RowResult(e) ==
    IF e = "none" THEN "success"
    ELSE IF SingleCdeCatches(e) THEN "failed" ELSE "dropped"

\* Step 4: when upload_cde, prepare_cde_data and, for a non-empty frame,
\* batch_upload_cde(cde_df, max_workers=10, batch_size=25), which returns the
\* per-row results (the frame always has the four required columns).
UploadCde ==
    /\ opc = "cde"
    /\ IF ~upload_cde
       THEN /\ opc' = "return"
            /\ UNCHANGED <<trace, okeys, cdeCalls, upload_results>> /\ NoRaise
       ELSE \E o \in {"ok", "raised"} :
            IF o = "raised"
            THEN /\ trace' = Append(trace, Event("prepare_cde_data", 0, "raised"))
                 /\ Raise(Err("ValueError", "cde_data", 0))
                 /\ UNCHANGED <<cdeCalls, upload_results>>
            ELSE IF df_empty(cde_rows)
            THEN /\ trace' = Append(trace, Event("prepare_cde_data", 0, "ok"))
                 /\ opc' = "return"
                 /\ UNCHANGED <<okeys, cdeCalls, upload_results>> /\ NoRaise
            ELSE \E errs \in [1..cde_rows -> RowErrors] :
                 LET outs == [r \in 1..cde_rows |-> RowResult(errs[r])]
                     raises == \E r \in 1..cde_rows : outs[r] = "raise"
                 IN /\ trace' = trace \o
                        <<Event("prepare_cde_data", cde_rows, "ok"),
                          Event("batch_upload_cde", cde_rows,
                                IF raises THEN "raised" ELSE "ok")>>
                    /\ cdeCalls' = Append(cdeCalls, [rows |-> cde_rows,
                                                     max_workers |-> OrchMaxWorkers,
                                                     batch_size |-> OrchBatchSize])
                    /\ IF raises
                       THEN /\ Raise(Err("CDEUploaderError", "cde", 0))
                            /\ UNCHANGED upload_results
                       ELSE /\ upload_results' = outs
                            /\ okeys' = okeys \cup {"cde"}
                            /\ opc' = "return"
                            /\ NoRaise
    /\ UNCHANGED <<orchInputs, clientsBuilt, tags, shareables, filesOnDisk,
                   notePublished, cdeVars, docVars, auxVars>>

\* return results
ReturnResults ==
    /\ opc = "return"
    /\ opc' = "returned"
    /\ UNCHANGED <<orchInputs, cdeCalls, upload_results, clientsBuilt, trace, tags, shareables, okeys,
                   oerror, oraised, filesOnDisk, notePublished, cdeVars, docVars, auxVars>>

InitOrch ==
    /\ opc = "validate"
    /\ template \in Templates
    /\ data_fields \in DataObjects
    /\ tcall \in {"validate_data", "generate_document"}
    /\ tpc = "call"
    /\ terr = NoError
    /\ tfiles = {}
    /\ tkeys = {}
    /\ nTaglists \in 0..MaxTaglists
    /\ upload_cde \in BOOLEAN
    /\ cde_rows \in 0..MaxCdeRows
    /\ clientsBuilt \in {{}, {"note_publisher"}, AllClients}
    /\ trace = <<>>
    /\ tags = <<>>
    /\ shareables = <<>>
    /\ okeys = {}
    /\ oerror = NoError
    /\ oraised = NoError
    /\ filesOnDisk = {}
    /\ notePublished = FALSE
    /\ cdeCalls = <<>>
    /\ upload_results = <<>>
    /\ CdeIdle
    /\ DocIdle
    /\ AuxIdle

NextOrch ==
    \/ ValidateData
    \/ GenerateDocument
    \/ InitializeClients
    \/ FindSecurity
    \/ FindAuthor
    \/ FindTaglist
    \/ FindCommunity
    \/ CreateNote
    \/ UploadCde
    \/ ReturnResults
    \/ TemplateCall

\* ------------------------------- DocumentRetriever.batch_process_documents
DocIds == {"d1", "d2"}

\* What transplantDocAttachments can do for one document: return the saved
\* ids, return None, raise the client's error, or raise something else (a
\* KeyError on attachment['extension'], an unexpected response shape).
TransplantOutcomes == {"saved", "nothing", "DocumentRetrieverError", "KeyError"}

\* A submission loop that misses the last document.
Submitted_SkipLast == 1..(Len(docs) - 1)

\* future_to_doc holds one future per element of docs.
Submitted == 1..Len(docs)

\* process_single_document: the DocumentProcessResult for transplant outcome o
\* (except Exception turns every raise into a failed result).
DocResult(doc, o) ==
    IF o \in {"saved", "nothing"}
    THEN [doc_id |-> doc, success |-> TRUE,
          saved |-> IF o = "saved" THEN "ids" ELSE "empty", error |-> "none"]
    ELSE [doc_id |-> doc, success |-> FALSE, saved |-> "none", error |-> o]

DocRunning == {i \in DOMAIN dpc : dpc[i] = "running"}

\* Path(base_path).mkdir(parents=True, exist_ok=True), then the pool is opened.
DocBatchCall ==
    /\ dmpc = "call"
    /\ \E ok \in BOOLEAN :
        dmpc' = IF ~ok THEN "raised"
                ELSE IF Submitted = {} THEN "exit" ELSE "submit"
    /\ UNCHANGED <<docs, doc_workers, dpc, dout, dcompleted, dresults,
                   cdeVars, orchVars, auxVars>>

\* executor.submit(self.process_single_document, doc, ...) for doc in docs
DocSubmit ==
    /\ dmpc = "submit"
    /\ LET idle == {i \in Submitted : dpc[i] = "idle"}
           i == CHOOSE x \in idle : \A y \in idle : x <= y
       IN /\ idle # {}
          /\ dpc' = [dpc EXCEPT ![i] = "queued"]
          /\ dmpc' = IF idle = {i} THEN "collect" ELSE "submit"
    /\ UNCHANGED <<docs, doc_workers, dout, dcompleted, dresults,
                   cdeVars, orchVars, auxVars>>

\* A pool thread takes the oldest queued task; at most max_workers run.
DocStart(i) ==
    /\ i \in DOMAIN dpc
    /\ dpc[i] = "queued"
    /\ \A y \in DOMAIN dpc : dpc[y] = "queued" => i <= y
    /\ Cardinality(DocRunning) < doc_workers
    /\ dpc' = [dpc EXCEPT ![i] = "running"]
    /\ UNCHANGED <<docs, doc_workers, dmpc, dout, dcompleted, dresults,
                   cdeVars, orchVars, auxVars>>

\* process_single_document runs to its return; the future completes.
ProcessSingleDocument(i) ==
    /\ i \in DOMAIN dpc
    /\ dpc[i] = "running"
    /\ \E o \in TransplantOutcomes :
        dout' = [dout EXCEPT ![i] = [raw |-> o, result |-> DocResult(docs[i], o)]]
    /\ dpc' = [dpc EXCEPT ![i] = "done"]
    /\ dcompleted' = Append(dcompleted, i)
    /\ UNCHANGED <<docs, doc_workers, dmpc, dresults, cdeVars, orchVars, auxVars>>

\* One turn of the as_completed loop: results[doc] = future.result()
DocCollect ==
    /\ dmpc = "collect"
    /\ dcompleted # <<>>
    /\ LET i == Head(dcompleted)
           doc == docs[i]
       IN /\ dresults' = [d \in DOMAIN dresults \cup {doc} |->
                            IF d = doc THEN dout[i].result ELSE dresults[d]]
          /\ dpc' = [dpc EXCEPT ![i] = "collected"]
          /\ dmpc' = IF \A j \in Submitted : j = i \/ dpc[j] = "collected"
                     THEN "exit" ELSE "collect"
    /\ dcompleted' = Tail(dcompleted)
    /\ UNCHANGED <<docs, doc_workers, dout, cdeVars, orchVars, auxVars>>

\* The pool is shut down, the tally printed, and results returned.
DocReturn ==
    /\ dmpc = "exit"
    /\ dmpc' = "returned"
    /\ UNCHANGED <<docs, doc_workers, dpc, dout, dcompleted, dresults,
                   cdeVars, orchVars, auxVars>>

NoOutcome == [raw |-> "none", result |-> DocResult("none", "none")]

InitDocs ==
    /\ docs \in UNION {[1..n -> DocIds] : n \in 0..MaxDocs}
    /\ doc_workers \in 1..MaxDocWorkers
    /\ dmpc = "call"
    /\ dpc = [i \in 1..Len(docs) |-> "idle"]
    /\ dout = [i \in 1..Len(docs) |-> NoOutcome]
    /\ dcompleted = <<>>
    /\ dresults = <<>>
    /\ CdeIdle
    /\ OrchIdle
    /\ AuxIdle

NextDocs ==
    \/ DocBatchCall
    \/ DocSubmit
    \/ \E i \in 1..MaxDocs : DocStart(i)
    \/ \E i \in 1..MaxDocs : ProcessSingleDocument(i)
    \/ DocCollect
    \/ DocReturn

\* ----------------------------------- ConfigHelper.load_and_validate_config
ConfigKeys == {"key", "uuid", "url", "timeout"}

\* JSON value types a file may give each key (a right one and wrong ones).
KeyTypes(k) ==
    CASE k = "key" -> {"str", "int"}
      [] k = "uuid" -> {"int", "bool", "str"}
      [] k = "url" -> {"str"}
      [] k = "timeout" -> {"float", "int", "str"}

\* The JSON objects a file named src can hold: any subset of the keys, each
\* value tagged with its type and with the file it was written in.
Mappings(src) ==
    UNION {{m \in [S -> [type : {"str", "int", "bool", "float"}, src : {src}]] :
              \A k \in S : m[k].type \in KeyTypes(k)} : S \in SUBSET ConfigKeys}

\* A file is missing (open raises), malformed (json.load raises), or an object.
Files(src) == {NoFile, [state |-> "malformed", map |-> <<>>]}
              \cup {[state |-> "ok", map |-> m] : m \in Mappings(src)}

\* isinstance(value, expected_type); bool is a subclass of int in Python.
isinstance(v, expected) ==
    CASE expected = "str" -> v.type = "str"
      [] expected = "int" -> v.type \in {"int", "bool"}
      [] expected = "number" -> v.type \in {"int", "bool", "float"}

required_keys == <<"key", "uuid", "url">>
required_types == [key |-> "str", uuid |-> "int", url |-> "str"]

NoConfigError == [error |-> "none", key |-> "none"]

\* A validation that checks the required keys only.
validate_config_RequiredOnly(config) ==
    LET bad == SelectSeq(required_keys, LAMBDA k :
                   k \notin DOMAIN config \/ ~isinstance(config[k], required_types[k]))
    IN IF bad # <<>>
       THEN [error |-> IF Head(bad) \notin DOMAIN config THEN "missing" ELSE "type",
             key |-> Head(bad)]
       ELSE NoConfigError

\* ConfigHelper._validate_config: the first required key that is missing or
\* wrong-typed, then the optional timeout; NoConfigError when it returns.
validate_config(config) ==
    LET bad == SelectSeq(required_keys, LAMBDA k :
                   k \notin DOMAIN config \/ ~isinstance(config[k], required_types[k]))
    IN IF bad # <<>>
       THEN [error |-> IF Head(bad) \notin DOMAIN config THEN "missing" ELSE "type",
             key |-> Head(bad)]
       ELSE IF "timeout" \in DOMAIN config /\ ~isinstance(config["timeout"], "number")
       THEN [error |-> "type", key |-> "timeout"]
       ELSE NoConfigError

\* A merge in which the base file wins.
update_BaseWins(base, env) ==
    [k \in DOMAIN base \cup DOMAIN env |->
        IF k \in DOMAIN base THEN base[k] ELSE env[k]]

\* config.update(env_config)
update(base, env) ==
    [k \in DOMAIN base \cup DOMAIN env |->
        IF k \in DOMAIN env THEN env[k] ELSE base[k]]

\* raise ConfigurationError(...): nothing is returned; error and key say what
\* the message carries (the wrapped cause).
ConfigurationError(error, key, reads) ==
    [ok |-> FALSE, config |-> <<>>, error |-> error, key |-> key, reads |-> reads]

\* The validated mapping is returned.
Loaded(config, reads) ==
    [ok |-> TRUE, config |-> config, error |-> "none", key |-> "none", reads |-> reads]

\* json.load of an opened file, then _validate_config of the mapping built.
Validated(config, reads) ==
    LET v == validate_config(config)
    IN IF v = NoConfigError THEN Loaded(config, reads)
       ELSE ConfigurationError(v.error, v.key, reads)

\* load_and_validate_config(config_path, config_dir, environment): the explicit
\* file alone when config_path is given, else the base file updated with the
\* environment file if that exists.
load_and_validate_config(path_given, pf, bf, ef) ==
    IF path_given
    THEN CASE pf.state = "missing" -> ConfigurationError("open", "none", <<"path">>)
           [] pf.state = "malformed" -> ConfigurationError("parse", "none", <<"path">>)
           [] OTHER -> Validated(pf.map, <<"path">>)
    ELSE CASE bf.state = "missing" -> ConfigurationError("open", "none", <<"base">>)
           [] bf.state = "malformed" -> ConfigurationError("parse", "none", <<"base">>)
           [] ef.state = "missing" -> Validated(bf.map, <<"base">>)
           [] ef.state = "malformed" ->
                  ConfigurationError("parse", "none", <<"base", "env">>)
           [] OTHER -> Validated(update(bf.map, ef.map), <<"base", "env">>)

\* ------------------------------------------- constructing a platform client
\* What the synchronizer endpoint can answer to the handshake.
HandshakeReplies == {NoResponse, 200, 401, 503}

\* __buildCredentials of the query client only copies the configuration into
\* the session headers; the other three send GET .../upload/synchronizer.
SendsHandshake(c) == c # "RMSBQL"

OnlyCtor == UNCHANGED <<cdeVars, orchVars, docVars, noteVars, entVars, lateVars>>

\* __init__: self.__config = ConfigHelper.load_and_validate_config(...)
LoadConfig ==
    /\ kpc = "load"
    /\ LET r == load_and_validate_config(has_path, pathf, basef, envf)
       IN /\ kconfig' = r
          /\ kpc' = IF r.ok THEN "credentials" ELSE "failed"
          /\ kerr' = IF r.ok THEN "none" ELSE "ClientError"
    /\ UNCHANGED <<kclient, has_path, pathf, basef, envf, ksent, kattempt, kused>>
    /\ OnlyCtor

\* __init__: self.__buildCredentials() / self._authenticate(). One HTTP
\* attempt of the handshake per step; any failure leaves __init__ as the
\* client's error (except Exception).
BuildCredentials ==
    /\ kpc = "credentials"
    /\ IF ~SendsHandshake(kclient)
       THEN /\ kpc' = "ready"
            /\ UNCHANGED <<ksent, kattempt, kerr>>
       ELSE \E s \in HandshakeReplies, hasTokens \in BOOLEAN :
            LET d == AdapterStep(kclient, "GET", kattempt, s)
            IN /\ ksent' = ksent + 1
               /\ IF d = "retry"
                  THEN /\ kattempt' = kattempt + 1
                       /\ UNCHANGED <<kpc, kerr>>
                  ELSE /\ UNCHANGED kattempt
                       /\ IF d = "response" /\ s < 400 /\ hasTokens
                          THEN kpc' = "ready" /\ UNCHANGED kerr
                          ELSE kpc' = "failed" /\ kerr' = "ClientError"
    /\ UNCHANGED <<kclient, has_path, pathf, basef, envf, kconfig, kused>>
    /\ OnlyCtor

\* A caller issues an operation on the object the constructor returned.
IssueOperation ==
    /\ kpc = "ready"
    /\ ~kused
    /\ kused' = TRUE
    /\ UNCHANGED <<kclient, has_path, pathf, basef, envf, kpc, kconfig, ksent,
                   kattempt, kerr>>
    /\ OnlyCtor

\* A full, valid object, used for the files a run leaves out of its choice.
FullMapping(src) ==
    [k \in ConfigKeys |->
        [type |-> IF k = "uuid" THEN "int" ELSE IF k = "timeout" THEN "float" ELSE "str",
         src |-> src]]

InitCtor ==
    /\ kclient \in Clients
    /\ has_path \in BOOLEAN
    /\ IF has_path
       THEN /\ pathf \in Files("path")
            /\ basef \in {NoFile, [state |-> "ok", map |-> FullMapping("base")]}
            /\ envf \in {NoFile, [state |-> "ok", map |-> FullMapping("env")]}
       ELSE /\ pathf = NoFile
            /\ basef \in Files("base")
            /\ envf \in Files("env")
    /\ kpc = "load"
    /\ kconfig = NotLoaded
    /\ ksent = 0
    /\ kattempt = 0
    /\ kused = FALSE
    /\ kerr = "none"
    /\ CdeIdle
    /\ OrchIdle
    /\ DocIdle
    /\ NoteIdle
    /\ EntIdle
    /\ LateIdle

NextCtor ==
    \/ LoadConfig
    \/ BuildCredentials
    \/ IssueOperation

\* ------------------------------ NotePublisher.create_note / prepare_attachment
\* A path whose open() raises OSError.
Unreadable == -1

\* DEFAULT_PART_SIZE = 1024 * 1024
DEFAULT_PART_SIZE == 1048576

\* len(base64.b64encode(content)) for content of n bytes
b64len(n) == 4 * ((n + 2) \div 3)

\* The encoded content of file i: b64len symbols, each told apart by its position.
Encoded(i) == [x \in 1..b64len(attachments[i]) |-> x]

\* partSize values the platform reports (it may also report none).
PartSizes == (MaxPartSize - 1)..MaxPartSize

\* The platform issues a fresh attachmentId with every prepared attachment.
NewAttachmentId(st) == Len(st) + 1

\* A chunk count that forgets the short last chunk.
NumChunks_Floor(n, ps) == n \div ps

\* len(chunks): range(0, len(encoded_content), part_size)
NumChunks(n, ps) == (n + ps - 1) \div ps

\* chunks[j] == encoded_content[j*part_size : (j+1)*part_size]
Chunk(enc, ps, j) ==
    SubSeq(enc, j * ps + 1, IF (j + 1) * ps < Len(enc) THEN (j + 1) * ps ELSE Len(enc))

\* An attachment list built back to front.
attachment_ids_Reversed(st) == [i \in 1..Len(st) |-> st[Len(st) + 1 - i].id]

\* attachment_ids: the ids in the order prepare_attachment returned them.
attachment_ids(st) == [i \in 1..Len(st) |-> st[i].id]

\* One request as the platform saw it.
Request(kind, file, index, data, ok) ==
    [kind |-> kind, file |-> file, index |-> index, data |-> data, ok |-> ok]

\* What _make_request (and create_note's own send) does with one request: it
\* is answered well, answered 401 and answered well on the resend, or fails.
SendOutcomes == {"ok", "resent_ok", "failed"}

\* The sends one request adds to the log for an outcome.
Sends(kind, file, index, data, o) ==
    CASE o = "ok" -> <<Request(kind, file, index, data, TRUE)>>
      [] o = "resent_ok" -> <<Request(kind, file, index, data, FALSE),
                              Request(kind, file, index, data, TRUE)>>
      [] OTHER -> <<Request(kind, file, index, data, FALSE)>>

OnlyNote == UNCHANGED <<cdeVars, orchVars, docVars, ctorVars, entVars, lateVars>>

\* for file_path in attachments: prepare_attachment opens and encodes the
\* file; when the loop is over the payload is built.
ReadFile ==
    /\ npc = "stage"
    /\ IF cur > Len(attachments)
       THEN /\ npc' = "create"
            /\ payload' = attachment_ids(staged)
            /\ UNCHANGED nerr
       ELSE IF attachments[cur] = Unreadable
       THEN /\ npc' = "raised"
            /\ nerr' = "NotePublisherError"
            /\ UNCHANGED payload
       ELSE /\ npc' = "prepare"
            /\ UNCHANGED <<payload, nerr>>
    /\ UNCHANGED <<attachments, part_size_reply, cur, staged, next_part, sent>>
    /\ OnlyNote

\* POST upload/prepareAttachment; the answer carries attachmentId and maybe
\* partSize. With no chunk to upload the attachment is returned at once.
PrepareAttachment ==
    /\ npc = "prepare"
    /\ \E o \in SendOutcomes, hasId \in BOOLEAN :
        LET id == NewAttachmentId(staged)
            ps == part_size_reply
        IN
        /\ sent' = sent \o Sends("prepare", cur, 0, <<>>, o)
        /\ IF o = "failed"
           THEN /\ npc' = "raised"
                /\ nerr' = "NotePublisherError"
                /\ UNCHANGED <<staged, cur, next_part>>
           ELSE IF ~hasId
           THEN /\ npc' = "raised"
                /\ nerr' = "KeyError"
                /\ UNCHANGED <<staged, cur, next_part>>
           ELSE /\ staged' = Append(staged, [file |-> cur, id |-> id, part_size |-> ps])
                /\ next_part' = 0
                /\ UNCHANGED nerr
                /\ IF NumChunks(b64len(attachments[cur]), ps) = 0
                   THEN npc' = "stage" /\ cur' = cur + 1
                   ELSE npc' = "parts" /\ UNCHANGED cur
    /\ UNCHANGED <<attachments, part_size_reply, payload>>
    /\ OnlyNote

\* POST upload/uploadAttachmentPart for chunk part_index
UploadPart ==
    /\ npc = "parts"
    /\ \E o \in SendOutcomes :
        LET ps == staged[cur].part_size
            enc == Encoded(cur)
        IN /\ sent' = sent \o Sends("part", cur, next_part, Chunk(enc, ps, next_part), o)
           /\ IF o = "failed"
              THEN /\ npc' = "raised"
                   /\ nerr' = "NotePublisherError"
                   /\ UNCHANGED <<cur, next_part>>
              ELSE /\ UNCHANGED nerr
                   /\ IF next_part + 1 = NumChunks(Len(enc), ps)
                      THEN npc' = "stage" /\ cur' = cur + 1 /\ next_part' = 0
                      ELSE UNCHANGED <<npc, cur>> /\ next_part' = next_part + 1
    /\ UNCHANGED <<attachments, part_size_reply, staged, payload>>
    /\ OnlyNote

\* session.post(url) of upload/createNote, with its own 401 handling
CreateNoteRequest ==
    /\ npc = "create"
    /\ \E o \in SendOutcomes :
        /\ sent' = sent \o Sends("createNote", 0, 0, payload, o)
        /\ npc' = IF o = "failed" THEN "raised" ELSE "returned"
        /\ nerr' = IF o = "failed" THEN "NotePublisherError" ELSE "none"
    /\ UNCHANGED <<attachments, part_size_reply, cur, staged, next_part, payload>>
    /\ OnlyNote

\* File sizes tried: unreadable, empty, one byte, and the largest.
NoteFiles == {Unreadable, 0, 1, MaxFileBytes}

InitNote ==
    /\ attachments \in UNION {[1..n -> NoteFiles] : n \in 0..MaxAttachments}
    /\ part_size_reply \in PartSizes \cup {DEFAULT_PART_SIZE}
    /\ npc = "stage"
    /\ cur = 1
    /\ staged = <<>>
    /\ next_part = 0
    /\ sent = <<>>
    /\ payload = <<>>
    /\ nerr = "none"
    /\ CdeIdle
    /\ OrchIdle
    /\ DocIdle
    /\ CtorIdle
    /\ EntIdle
    /\ LateIdle

NextNote ==
    \/ ReadFile
    \/ PrepareAttachment
    \/ UploadPart
    \/ CreateNoteRequest

\* ===================================================== find_corp_ticker
\* Words a caller may type, in either case.
Words == {"aal", "corp", "CORP", "IBM"}

\* str.upper() on one word
upper(w) == CASE w = "aal" -> "AAL" [] w = "corp" -> "CORP" [] OTHER -> w

\* ticker = ticker.upper(); ticker_parts = ticker.split()
ticker_parts(t) == [i \in 1..Len(t) |-> upper(t[i])]

\* the format check of find_corp_ticker: TRUE when ValidationError is raised
invalid_format(parts) ==
    Len(parts) > 2 \/ (Len(parts) = 2 /\ \A i \in 1..Len(parts) : parts[i] # "CORP")

\* ticker_parts[0] if ticker_parts[0] != 'CORP' else ticker_parts[1];
\* "IndexError" when the index read does not exist
base_ticker(parts) ==
    IF Len(parts) = 0 THEN "IndexError"
    ELSE IF parts[1] # "CORP" THEN parts[1]
    ELSE IF Len(parts) < 2 THEN "IndexError"
    ELSE parts[2]

\* Items the SECURITIES search may answer with.
SecurityItems == [metadata : {"AAL", "IBM"}, subtype : {"CORP", "None"}]

\* item.get('metadata') == base_ticker and item.get('subtype') == 'CORP'
item_matches(item, base) == item.metadata = base /\ item.subtype = "CORP"

\* for item in results: the first matching item, typed SECURITIES, else None
first_match(items, base) ==
    LET ms == {i \in 1..Len(items) : item_matches(items[i], base)}
    IN IF ms = {} THEN NoHit
       ELSE LET i == CHOOSE j \in ms : \A k \in ms : j <= k
            IN [metadata |-> items[i].metadata, subtype |-> items[i].subtype,
                type |-> "SECURITIES", index |-> i]

OnlyTick == UNCHANGED <<cdeVars, orchVars, docVars, ctorVars, noteVars, userVars, bqlVars, lateVars>>

\* find_corp_ticker up to the search: normalise, check the format, extract
\* the base ticker
CheckTickerFormat ==
    /\ fpc = "call"
    /\ LET parts == ticker_parts(ticker)
       IN IF invalid_format(parts)
          THEN fpc' = "raised" /\ ferr' = "ValidationError"
          ELSE IF base_ticker(parts) = "IndexError"
          THEN fpc' = "raised" /\ ferr' = "IndexError"
          ELSE fpc' = "search" /\ UNCHANGED ferr
    /\ UNCHANGED <<ticker, hits, fsearches, fresult>>
    /\ OnlyTick

\* _search_entity(ticker, 'SECURITIES', ...) through _make_request, then the
\* loop over the results
SearchEntity ==
    /\ fpc = "search"
    /\ \E o \in SendOutcomes :
        /\ fsearches' = fsearches + (IF o = "resent_ok" THEN 2 ELSE 1)
        /\ IF o = "failed"
           THEN fpc' = "raised" /\ ferr' = "NotePublisherError" /\ UNCHANGED fresult
           ELSE /\ fpc' = "returned"
                /\ fresult' = first_match(hits, base_ticker(ticker_parts(ticker)))
                /\ UNCHANGED ferr
    /\ UNCHANGED <<ticker, hits>>
    /\ OnlyTick

InitTicker ==
    /\ ticker \in UNION {[1..n -> Words] : n \in 0..MaxTokens}
    /\ hits \in UNION {[1..n -> SecurityItems] : n \in 0..MaxHits}
    /\ fpc = "call"
    /\ fsearches = 0
    /\ fresult = NoHit
    /\ ferr = "none"
    /\ CdeIdle
    /\ OrchIdle
    /\ DocIdle
    /\ CtorIdle
    /\ NoteIdle
    /\ TickOff
    /\ LateIdle

NextTicker ==
    \/ CheckTickerFormat
    \/ SearchEntity

\* ============================================================= BBG_USER
\* Values tried for the two fields; "None" is an absent subtype.
TypeValues == {"WORKGROUPS", "PEOPLE", "AUTHORS", "COMMUNITIES"}
SubtypeValues == {"None", "UUID", "SPDL"}

\* type: Literal['WORKGROUPS', 'PEOPLE', 'AUTHORS'];
\* subtype: Optional[Literal['UUID']] = None
field_valid(name, v) ==
    IF name = "type" THEN v \in {"WORKGROUPS", "PEOPLE", "AUTHORS"}
    ELSE v \in {"None", "UUID"}

\* the model validator: TRUE when it returns self, FALSE when it raises
validate_type_subtype_combination(r) ==
    /\ ~(r.type = "WORKGROUPS" /\ r.subtype # "UUID")
    /\ ~(r.type \in {"PEOPLE", "AUTHORS"} /\ r.subtype # "None")

OnlyUser == UNCHANGED <<cdeVars, orchVars, docVars, ctorVars, noteVars, tickVars, bqlVars, lateVars>>

\* BBG_USER(**item): an extra field is forbidden, the fields are checked
\* against their literals, then the model validator runs on the new record
ConstructUser ==
    /\ upc = "construct"
    /\ IF /\ ~uargs.extra
          /\ field_valid("type", uargs.type)
          /\ field_valid("subtype", uargs.subtype)
          /\ validate_type_subtype_combination(uargs)
       THEN /\ upc' = "live"
            /\ urec' = uargs
            /\ uerr' = "none"
       ELSE /\ upc' = "failed"
            /\ uerr' = "ValidationError"
            /\ UNCHANGED urec
    /\ UNCHANGED <<uargs, uassigns>>
    /\ OnlyUser

\* record.<name> = v with validate_assignment = True: the field is checked
\* against its literal; a value that passes is stored in the record and the
\* model validator, which runs in mode 'after', is then called with the
\* updated record.
AssignField ==
    /\ upc = "live"
    /\ uassigns < MaxAssigns
    /\ \E name \in {"type", "subtype"}, v \in TypeValues \cup SubtypeValues :
        LET new == IF name = "type" THEN [urec EXCEPT !.type = v]
                   ELSE [urec EXCEPT !.subtype = v]
        IN IF ~field_valid(name, v)
           THEN uerr' = "ValidationError" /\ UNCHANGED urec
           ELSE /\ urec' = new
                /\ uerr' = IF validate_type_subtype_combination(new)
                           THEN "none" ELSE "ValidationError"
    /\ uassigns' = uassigns + 1
    /\ UNCHANGED <<uargs, upc>>
    /\ OnlyUser

InitUser ==
    /\ uargs \in [type : TypeValues, subtype : SubtypeValues, extra : BOOLEAN]
    /\ upc = "construct"
    /\ urec = NoRecord
    /\ uassigns = 0
    /\ uerr = "none"
    /\ CdeIdle
    /\ OrchIdle
    /\ DocIdle
    /\ CtorIdle
    /\ NoteIdle
    /\ UserOff
    /\ LateIdle

NextUser ==
    \/ ConstructUser
    \/ AssignField

\* ==================================================== executeBQLRequest
\* Shapes of a result item: columns of typed values; sirExceptions with a
\* partialErrorMap; sirExceptions with a responseExceptions list; neither
\* sirExceptions nor columns; sirExceptions with neither of its two keys.
ItemShapes == {"frame", "partial", "exception", "no_columns", "no_response_exceptions"}
ItemNames == {"PX_LAST", "EPS"}
ResultItems == [name : ItemNames, shape : ItemShapes]

\* __process_response_item: a frame, None, or the KeyError of a missing key
process_response_item(item) ==
    CASE item.shape = "partial" -> "None"
      [] item.shape = "exception" -> "None"
      [] item.shape = "no_response_exceptions" -> "KeyError"
      [] item.shape = "no_columns" -> "KeyError"
      [] OTHER -> "frame"

OnlyBql == UNCHANGED <<cdeVars, orchVars, docVars, ctorVars, noteVars, tickVars, userVars, lateVars>>

\* bql_res = self.submitBQLRequest(query); if 'errorMessages' in bql_res:
\* return {}
SubmitBQLRequest ==
    /\ bpc = "submit"
    /\ IF bql_res.state = "failed"
       THEN bpc' = "raised" /\ berr' = "RMSBQLError"
       ELSE /\ UNCHANGED berr
            /\ IF bql_res.errorMessages \/ Len(bql_res.results) = 0
               THEN bpc' = "returned"
               ELSE bpc' = "items"
    /\ UNCHANGED <<bql_res, bidx, response_frames_dict>>
    /\ OnlyBql

\* one turn of the loop over bql_res.get('results', []); the mapping is
\* returned after the last item
ProcessResponseItem ==
    /\ bpc = "items"
    /\ LET item == bql_res.results[bidx]
           frame == process_response_item(item)
       IN IF frame = "KeyError"
          THEN /\ bpc' = "raised"
               /\ berr' = "KeyError"
               /\ UNCHANGED <<bidx, response_frames_dict>>
          ELSE /\ response_frames_dict' =
                    IF frame = "None" THEN response_frames_dict
                    ELSE (item.name :> bidx) @@ response_frames_dict
               /\ bidx' = bidx + 1
               /\ bpc' = IF bidx = Len(bql_res.results) THEN "returned" ELSE "items"
               /\ UNCHANGED berr
    /\ UNCHANGED bql_res
    /\ OnlyBql

InitBql ==
    /\ bql_res \in [state : {"ok", "failed"}, errorMessages : BOOLEAN,
                    results : UNION {[1..n -> ResultItems] : n \in 0..MaxItems}]
    /\ bpc = "submit"
    /\ bidx = 1
    /\ response_frames_dict = <<>>
    /\ berr = "none"
    /\ CdeIdle
    /\ OrchIdle
    /\ DocIdle
    /\ CtorIdle
    /\ NoteIdle
    /\ BqlOff
    /\ LateIdle

NextBql ==
    \/ SubmitBQLRequest
    \/ ProcessResponseItem

\* =================================== shared credentials of a write client
\* The clients whose write requests carry the synchronizer token and URI.
WriteClients == {"CDEUploader", "NotePublisher"}

\* A batch runs its rows on pool threads; the note publisher is used by one
\* caller at a time.
TaskCounts(c) == IF c = "CDEUploader" THEN 1..MaxTasks ELSE {1}

\* __buildCredentials assigns __synchronizerToken and __synchronizerUri in two
\* statements; _authenticate assigns the _credentials dict in one.
StoresPairAtOnce(c) == c = "NotePublisher"

\* A re-authentication that waits while another task is re-authenticating.
CanRefresh_Exclusive(t) ==
    /\ wpc[t] = "refresh"
    /\ \A u \in Tasks \ {t} : wpc[u] \notin {"store_token", "store_uri"}

\* if response.status_code == 401: self.__refresh_credentials(), with no lock
\* around it
CanRefresh(t) == wpc[t] = "refresh"

\* The resend passes the data (or url) that was built before the first send.
ResentBody(t) == body[t]

OnlyCred == UNCHANGED <<cdeVars, orchVars, docVars, ctorVars, noteVars, entVars, xferVars>>

\* data['SYNCHRONIZER_TOKEN'] = self.__synchronizerToken
ReadToken(t) ==
    /\ wpc[t] = "read_token"
    /\ body' = [body EXCEPT ![t].token = credentials.token]
    /\ wpc' = [wpc EXCEPT ![t] = "read_uri"]
    /\ UNCHANGED <<wclient, ntasks, credentials, handshakes, fresh, wsent>>
    /\ OnlyCred

\* data['SYNCHRONIZER_URI'] = self.__synchronizerUri
ReadUri(t) ==
    /\ wpc[t] = "read_uri"
    /\ body' = [body EXCEPT ![t].uri = credentials.uri]
    /\ wpc' = [wpc EXCEPT ![t] = "post"]
    /\ UNCHANGED <<wclient, ntasks, credentials, handshakes, fresh, wsent>>
    /\ OnlyCred

\* the first session.post(...): 401 leads to the re-authentication, another
\* error status or exception ends the operation
Post(t) ==
    /\ wpc[t] = "post"
    /\ wsent' = [wsent EXCEPT ![t] = Append(@, body[t])]
    /\ \E s \in {200, 401, 503} :
        wpc' = [wpc EXCEPT ![t] = CASE AfterFirstSend(s) = "refresh" -> "refresh"
                                    [] AfterFirstSend(s) = "raise" -> "failed"
                                    [] OTHER -> "done"]
    /\ UNCHANGED <<wclient, ntasks, credentials, handshakes, body, fresh>>
    /\ OnlyCred

\* the synchronizer GET of the re-authentication and tokens = response.json()
SynchronizerGet(t) ==
    /\ CanRefresh(t)
    /\ \E ok \in BOOLEAN :
        IF ok
        THEN /\ handshakes' = handshakes + 1
             /\ fresh' = [fresh EXCEPT ![t] = handshakes + 1]
             /\ IF StoresPairAtOnce(wclient)
                THEN /\ credentials' = [token |-> handshakes + 1, uri |-> handshakes + 1]
                     /\ wpc' = [wpc EXCEPT ![t] = "resend"]
                ELSE /\ wpc' = [wpc EXCEPT ![t] = "store_token"]
                     /\ UNCHANGED credentials
        ELSE /\ wpc' = [wpc EXCEPT ![t] = "failed"]
             /\ UNCHANGED <<handshakes, fresh, credentials>>
    /\ UNCHANGED <<wclient, ntasks, body, wsent>>
    /\ OnlyCred

\* self.__synchronizerToken = tokens['synchronizerToken']
StoreToken(t) ==
    /\ wpc[t] = "store_token"
    /\ credentials' = [credentials EXCEPT !.token = fresh[t]]
    /\ wpc' = [wpc EXCEPT ![t] = "store_uri"]
    /\ UNCHANGED <<wclient, ntasks, handshakes, body, fresh, wsent>>
    /\ OnlyCred

\* self.__synchronizerUri = tokens['synchronizerUri']
StoreUri(t) ==
    /\ wpc[t] = "store_uri"
    /\ credentials' = [credentials EXCEPT !.uri = fresh[t]]
    /\ wpc' = [wpc EXCEPT ![t] = "resend"]
    /\ UNCHANGED <<wclient, ntasks, handshakes, body, fresh, wsent>>
    /\ OnlyCred

\* the second session.post(...), then raise_for_status
Resend(t) ==
    /\ wpc[t] = "resend"
    /\ wsent' = [wsent EXCEPT ![t] = Append(@, ResentBody(t))]
    /\ \E s \in {200, 401} :
        wpc' = [wpc EXCEPT ![t] = IF AfterResend(s) = "raise" THEN "failed" ELSE "done"]
    /\ UNCHANGED <<wclient, ntasks, credentials, handshakes, body, fresh>>
    /\ OnlyCred

InitCred ==
    /\ wclient \in WriteClients
    /\ ntasks \in TaskCounts(wclient)
    /\ credentials = [token |-> 1, uri |-> 1]
    /\ handshakes = 1
    /\ wpc = [t \in Tasks |-> IF t <= ntasks THEN "read_token" ELSE "idle"]
    /\ body = [t \in Tasks |-> NoBody]
    /\ fresh = [t \in Tasks |-> 0]
    /\ wsent = [t \in Tasks |-> <<>>]
    /\ CdeIdle
    /\ OrchIdle
    /\ DocIdle
    /\ CtorIdle
    /\ NoteIdle
    /\ EntIdle
    /\ XferIdle

NextCred ==
    \/ \E t \in Tasks : ReadToken(t)
    \/ \E t \in Tasks : ReadUri(t)
    \/ \E t \in Tasks : Post(t)
    \/ \E t \in Tasks : SynchronizerGet(t)
    \/ \E t \in Tasks : StoreToken(t)
    \/ \E t \in Tasks : StoreUri(t)
    \/ \E t \in Tasks : Resend(t)

\* ------------------------- one orchestrator, several publish_research calls
\* The data objects handed to the calls: complete, or lacking the first
\* required field.
OperationData(t) == {FieldSet(t), FieldSet(t) \ {required_data_fields(t)[1]}}

\* publish_research calls started on the orchestrator so far.
OperationsStarted ==
    1 + Len(SelectSeq(trace, LAMBDA e : e.call = "publish_research"))

\* The previous call has returned or raised and publish_research is called
\* again on the same object: results, tags and shareables are locals of the
\* new call, the three client attributes and the output directory are kept.
NextOperation ==
    /\ opc \in {"returned", "raised"}
    /\ OperationsStarted < MaxOps
    /\ opc' = "validate"
    /\ data_fields' \in OperationData(template)
    /\ trace' = Append(trace, Event("publish_research", OperationsStarted + 1, "start"))
    /\ tags' = <<>>
    /\ shareables' = <<>>
    /\ okeys' = {}
    /\ oerror' = NoError
    /\ oraised' = NoError
    /\ notePublished' = FALSE
    /\ UNCHANGED <<template, nTaglists, upload_cde, cde_rows, tmplVars, clientsBuilt,
                   filesOnDisk, cdeCalls, upload_results, cdeVars, docVars, auxVars>>

\* __init__ leaves note_publisher, cde_uploader and bql_client None.
InitOperations ==
    /\ InitOrch
    /\ clientsBuilt = {}
    /\ template = "thesis"
    /\ data_fields \in OperationData(template)
    /\ tcall = "validate_data"
    /\ nTaglists \in 0..1
    /\ cde_rows = 0

NextOperations ==
    \/ ValidateData
    \/ GenerateDocument
    \/ InitializeClients
    \/ FindSecurity
    \/ FindAuthor
    \/ FindTaglist
    \/ FindCommunity
    \/ CreateNote
    \/ UploadCde
    \/ ReturnResults
    \/ NextOperation

\* ------------------------------ DocumentRetriever.transplantDocAttachments
\* File ids the platform lists; "" stands for an attachment whose fileId is
\* empty or null.
FileIds == {"f1", "f2"}
Extensions == {".pdf", ".xlsx"}
Listed == [fileId : FileIds \cup {""}, extension : Extensions]

RECURSIVE SeqsUpTo(_, _)
SeqsUpTo(S, n) ==
    IF n = 0 THEN {<<>>}
    ELSE LET shorter == SeqsUpTo(S, n - 1)
         IN shorter \cup {Append(q, x) : q \in {r \in shorter : Len(r) = n - 1}, x \in S}

FileTypeArgs ==
    {StrArg("All"), StrArg(".pdf"), ListArg(<<".pdf", ".xlsx">>), ListArg(<<".xlsx">>),
     ListArg(<<>>), OtherArg}

base_path == "base"

\* os.path.join(base_path, file_id) for a file id that is a plain name
path_join(dir, name) == [dir |-> dir, name |-> name]

\* file_types != 'All'
filters(ft) == ft # StrArg("All")

\* isinstance(file_types, (str, list))
valid_file_types(ft) == ft.kind \in {"str", "list"}

\* A filter that lets every attachment through.
passes_Any(a, ft) == TRUE

\* a['extension'] in file_types, after a str was wrapped into a list
passes(a, ft) == \E i \in DOMAIN ft.val : ft.val[i] = a.extension

\* The attachments the loop runs over.
ToRetrieve(atts, ft) ==
    IF filters(ft) THEN SelectSeq(atts, LAMBDA a : passes(a, ft)) ELSE atts

\* if not file_id
no_file_id(a) == a.fileId = ""

OnlyXfer == UNCHANGED <<cdeVars, orchVars, docVars, ctorVars, noteVars, entVars, credVars>>

XferRaise(e) ==
    /\ xpc' = "raised"
    /\ xerr' = e
    /\ UNCHANGED xret

\* getDocMetaData and getDocAttachments, the early return on an empty list,
\* and the check of the file_types argument.
GetAttachments ==
    /\ xpc = "metadata"
    /\ \E o \in {"ok", "error"} :
        IF o = "error"
        THEN XferRaise("DocumentRetrieverError")
        ELSE IF xatts = <<>>
        THEN /\ xret' = None
             /\ xpc' = "returned"
             /\ UNCHANGED xerr
        ELSE IF filters(file_types) /\ ~valid_file_types(file_types)
        THEN XferRaise("DocumentRetrieverError")
        ELSE /\ xpc' = "loop"
             /\ UNCHANGED <<xret, xerr>>
    /\ UNCHANGED <<xatts, file_types, xidx, saved_attachments, xdisk>>
    /\ OnlyXfer

\* One turn of `for attachment in attachments`: an attachment without a file
\* id is reported and skipped; otherwise getDocument, saveFile and the append.
\* saveFile opens the file before it writes, so a failed save may leave it.
RetrieveAttachment ==
    /\ xpc = "loop"
    /\ xidx <= Len(ToRetrieve(xatts, file_types))
    /\ LET a == ToRetrieve(xatts, file_types)[xidx]
           path == path_join(base_path, a.fileId)
       IN IF no_file_id(a)
          THEN /\ xidx' = xidx + 1
               /\ UNCHANGED <<xpc, saved_attachments, xdisk, xret, xerr>>
          ELSE \E o \in {"ok", "download_error", "save_error"} :
               IF o = "ok"
               THEN /\ xdisk' = xdisk \cup {path}
                    /\ saved_attachments' = Append(saved_attachments, a.fileId)
                    /\ xidx' = xidx + 1
                    /\ UNCHANGED <<xpc, xret, xerr>>
               ELSE /\ XferRaise("DocumentRetrieverError")
                    /\ xdisk' \in IF o = "save_error" THEN {xdisk, xdisk \cup {path}}
                                  ELSE {xdisk}
                    /\ UNCHANGED <<xidx, saved_attachments>>
    /\ UNCHANGED <<xatts, file_types>>
    /\ OnlyXfer

\* return saved_attachments if num_saved > 0, else None
ReturnSaved ==
    /\ xpc = "loop"
    /\ xidx > Len(ToRetrieve(xatts, file_types))
    /\ xret' = IF Len(saved_attachments) > 0 THEN saved_attachments ELSE None
    /\ xpc' = "returned"
    /\ UNCHANGED <<xatts, file_types, xidx, saved_attachments, xdisk, xerr>>
    /\ OnlyXfer

InitXfer ==
    /\ xatts \in SeqsUpTo(Listed, MaxListed)
    /\ file_types \in FileTypeArgs
    /\ xpc = "metadata"
    /\ xidx = 1
    /\ saved_attachments = <<>>
    /\ xdisk = {}
    /\ xret = None
    /\ xerr = "none"
    /\ CdeIdle
    /\ OrchIdle
    /\ DocIdle
    /\ CtorIdle
    /\ NoteIdle
    /\ EntIdle
    /\ CredIdle

NextXfer ==
    \/ GetAttachments
    \/ RetrieveAttachment
    \/ ReturnSaved

\* SECTION-END
vars == <<cdeVars, orchVars, docVars, auxVars>>

SpecReq == InitReq /\ [][NextReq]_vars

SpecBatch == InitBatch /\ [][NextBatch]_vars

SpecOrch == InitOrch /\ [][NextOrch]_vars

SpecDocs == InitDocs /\ [][NextDocs]_vars

SpecCtor == InitCtor /\ [][NextCtor]_vars

SpecNote == InitNote /\ [][NextNote]_vars

SpecTicker == InitTicker /\ [][NextTicker]_vars

SpecUser == InitUser /\ [][NextUser]_vars

SpecBql == InitBql /\ [][NextBql]_vars

SpecCred == InitCred /\ [][NextCred]_vars

SpecOperations == InitOperations /\ [][NextOperations]_vars

SpecXfer == InitXfer /\ [][NextXfer]_vars

\* ================================================================ claims
Finished(r) == rpc[r] \in {"returned", "raised"}
All503(s) == Len(s) >= 1 /\ \A i \in 1..Len(s) : s[i] = 503

\* C1: one _make_request call, on any of the four clients, sends the request
\* at most twice and re-authenticates at most once; it re-authenticates exactly
\* when the first send is answered 401; the resend happens exactly when that
\* re-authentication succeeded; a 401 on the resend ends the call with the
\* client's error, without a further re-authentication or send.
C1_AtMostOneRefreshAndResend ==
    LET n == Len(replies[1])
    IN /\ n <= 2
       /\ reauths[1] <= 1
       /\ (reauths[1] = 1) <=> (n >= 1 /\ replies[1][1] = 401)
       /\ (n = 2) => refreshed[1]
       /\ (Finished(1) /\ refreshed[1]) => n = 2
       /\ (Finished(1) /\ n = 2 /\ replies[1][2] = 401)
            => (rpc[1] = "raised" /\ exc[1] = "ClientError")

\* C1 witness: a call answered 401 twice has ended with the client's error
\* after one re-authentication and one resend.
C1_Witness ==
    /\ rpc[1] = "raised"
    /\ replies[1] = <<401, 401>>
    /\ reauths[1] = 1
    /\ exc[1] = "ClientError"

\* C2: a returned batch call holds exactly one result per input row (N
\* results for N rows), so successes plus failures equal N, for every batch
\* size, worker count, mix of outcomes and completion order.
C2_OneResultPerRow ==
    (mpc = "returned") =>
        /\ Len(results) = nRows
        /\ \A r \in 1..nRows :
              Cardinality({i \in 1..Len(results) : results[i].row = r}) = 1
        /\ LET failedResults == Cardinality({i \in 1..Len(results) : ~results[i].success})
           IN /\ Successful + failedResults = nRows
              /\ Failed = failedResults

\* C2 witness: a three-row call has returned with successes and failures
\* mixed and the results out of input order.
C2_Witness ==
    /\ mpc = "returned"
    /\ nRows = 3
    /\ Successful >= 1
    /\ Failed >= 1
    /\ results[1].row # 1

\* C3: no row of a later batch is submitted, started or sent before every
\* row of each earlier batch has completed.
C3_BatchesSequential ==
    \A r \in 1..nRows, q \in 1..nRows :
        ((q - 1) \div batch_size > (r - 1) \div batch_size /\ rpc[q] # "idle")
            => rpc[r] \in {"done", "crashed"}

\* C3 witness: a row of the second batch is on the wire while the call runs.
C3_Witness ==
    \E q \in 1..nRows :
        /\ (q - 1) \div batch_size = 1
        /\ rpc[q] = "second"
        /\ batch = 2

\* C4: the single-row operations never raise: every failure of the request
\* (error status, transport exception, failed re-authentication) ends as a
\* result with success = false carrying the error, and a returned batch call
\* has attempted every row of its input.
C4_SingleRowNeverRaises ==
    /\ \A r \in Rows : rpc[r] # "crashed"
    /\ \A r \in Rows :
          (rpc[r] = "done" /\ exc[r] # "none")
              => (~result[r].success /\ result[r].error = exc[r])
    /\ (mpc = "returned") => \A r \in 1..nRows : Len(replies[r]) >= 1

\* C4 witness: a row failed in re-authentication with a non-client error, was
\* recorded as failed, and another row of the same call succeeded.
C4_Witness ==
    /\ mpc = "returned"
    /\ \E r \in 1..nRows :
          exc[r] = "KeyError" /\ rpc[r] = "done" /\ ~result[r].success
    /\ \E r \in 1..nRows : rpc[r] = "done" /\ result[r].success

\* C8: a single-row request answered 503 every time is attempted exactly four
\* times before it is recorded as failed, and a request answered 503 first is
\* attempted a second time, a success there being recorded as successful.
C8_RetriedThreeTimesOn503 ==
    \A r \in Rows :
        (rpc[r] = "done" /\ Len(replies[r]) >= 1 /\ replies[r][1] = 503)
            => /\ Len(replies[r]) >= 2
               /\ All503(replies[r])
                    => (Len(replies[r]) = RetryTotal + 1 /\ ~result[r].success)
               /\ replies[r][2] = 200
                    => (Len(replies[r]) = 2 /\ result[r].success)

\* C8 witness: a row whose only attempt was answered 503 is recorded as failed.
C8_Witness ==
    \E r \in 1..nRows :
        /\ rpc[r] = "done"
        /\ replies[r] = <<503>>
        /\ ~result[r].success

\* C9: with a required column missing the batch call raises before any work:
\* no row is submitted, nothing is sent and no result is produced.
C9_MissingColumnsRaiseFirst ==
    (~(required_columns \subseteq cols)) =>
        /\ mpc \in {"call", "raised"}
        /\ \A r \in Rows : rpc[r] = "idle" /\ replies[r] = <<>>
        /\ results = <<>>

\* C9 witness: a delete call on rows without the value column has raised.
C9_Witness ==
    /\ mpc = "raised"
    /\ op = "delete"
    /\ nRows >= 1
    /\ "value" \notin cols

LookupCalls == {"find_security", "find_user", "find_taglist", "find_community"}
Lookups == SelectSeq(trace, LAMBDA e : e.call \in LookupCalls)
Before(i, e) == \E j \in 1..(i - 1) : trace[j] = e
EntityOf(call) ==
    CASE call = "find_security" -> "security"
      [] call = "find_user" -> "author"
      [] call = "find_taglist" -> "taglist"
      [] OTHER -> "community"

\* C5: the steps of publish_research run in order: every entity lookup comes
\* after generate_document has returned, create_note is called only after the
\* security, the author, every tag-list mapping and the community have been
\* found, and batch_upload_cde is called only after create_note has returned
\* a published note.
C5_StepsStrictlyInOrder ==
    \A i \in 1..Len(trace) :
        /\ trace[i].call \in LookupCalls
              => Before(i, Event("generate_document", 0, "ok"))
        /\ trace[i].call = "create_note"
              => /\ Before(i, Event("find_security", 0, "found"))
                 /\ Before(i, Event("find_user", 0, "found"))
                 /\ \A k \in 1..nTaglists : Before(i, Event("find_taglist", k, "found"))
                 /\ Before(i, Event("find_community", 0, "found"))
        /\ trace[i].call = "batch_upload_cde"
              => (Before(i, Event("create_note", 0, "ok")) /\ notePublished)

\* C5 witness: a workflow with two tag lists has returned after uploading CDE.
C5_Witness ==
    /\ opc = "returned"
    /\ nTaglists = 2
    /\ "cde" \in okeys
    /\ "note" \in okeys

\* C6: the lookups are issued in the order security, author, tag-list
\* mappings in configuration order, community; the first lookup that finds
\* nothing is the last one issued, raises an error naming that entity, and no
\* tags/shareables pair is returned.
C6_LookupsInOrderFailFast ==
    LET L == Lookups
        expected == <<Event("find_security", 0, "found"), Event("find_user", 0, "found")>>
                    \o [k \in 1..nTaglists |-> Event("find_taglist", k, "found")]
                    \o <<Event("find_community", 0, "found")>>
    IN /\ Len(L) <= Len(expected)
       /\ \A i \in 1..Len(L) :
            /\ L[i].call = expected[i].call
            /\ L[i].arg = expected[i].arg
            /\ L[i].out = "absent"
                 => /\ i = Len(L)
                    /\ opc = "raised"
                    /\ oraised = Err("ValueError", EntityOf(L[i].call), L[i].arg)
                    /\ "entities" \notin okeys

\* C6 witness: the second of two tag-list mappings was not found, after the
\* security, the author and the first mapping were.
C6_Witness ==
    /\ opc = "raised"
    /\ oraised = Err("ValueError", "taglist", 2)
    /\ Len(Lookups) = 4
    /\ Len(tags) = 3

\* C7: when a step raises, the error is recorded under the error key and the
\* same exception leaves publish_research (no results mapping is returned); a
\* returned mapping never has the error key; documents recorded as generated
\* are still on disk and a note recorded as published is still published.
C7_ErrorRecordedAndReraised ==
    /\ (\E i \in 1..Len(trace) : trace[i].out \in {"raised", "error", "absent"})
          => /\ opc = "raised"
             /\ oraised # NoError
             /\ "error" \in okeys
             /\ oerror = oraised
    /\ (opc = "returned") => ("error" \notin okeys /\ oraised = NoError)
    /\ ("documents" \in okeys) => filesOnDisk = FilesWritten(template, "ok")
    /\ ("note" \in okeys) => notePublished

\* C7 witness: preparing the CDE data raised after the note was published; the
\* error is recorded and raised, the files and the note remain.
C7_Witness ==
    /\ opc = "raised"
    /\ trace[Len(trace)] = Event("prepare_cde_data", 0, "raised")
    /\ notePublished
    /\ filesOnDisk = {"docx", "pdf"}
    /\ template = "thesis"
    /\ oerror = Err("ValueError", "cde_data", 0)

\* C10: a returned batch_process_documents mapping has exactly the submitted
\* document ids as keys, each bound to a result of a task of that id carrying
\* that id; every submitted task ran; a task whose processing raised has a
\* failed result.
C10_OneResultPerDocument ==
    /\ \A i \in DOMAIN dout :
          (dout[i].raw \in {"DocumentRetrieverError", "KeyError"})
              => (~dout[i].result.success /\ dout[i].result.doc_id = docs[i])
    /\ (dmpc = "returned") =>
          /\ DOMAIN dresults = {docs[i] : i \in 1..Len(docs)}
          /\ \A i \in 1..Len(docs) : dpc[i] = "collected"
          /\ \A d \in DOMAIN dresults :
                /\ dresults[d].doc_id = d
                /\ \E i \in 1..Len(docs) : docs[i] = d /\ dresults[d] = dout[i].result

\* C10 witness: three documents, one of them failing with a non-client error
\* and completing first, have all been processed and returned.
C10_Witness ==
    /\ dmpc = "returned"
    /\ Len(docs) = 3
    /\ docs[1] # docs[3]
    /\ dout[3].raw = "KeyError"
    /\ dout[1].raw = "saved"
    /\ ~dresults[docs[3]].success
    /\ dresults[docs[1]].success

MissingFields == {i \in DOMAIN required_data_fields(template) :
                     required_data_fields(template)[i] \notin data_fields}
FirstMissing ==
    required_data_fields(template)[CHOOSE i \in MissingFields : \A j \in MissingFields : i <= j]

\* C11: when the data object lacks a required field, validate_data,
\* generate_document and publish_research raise a ValueError naming the
\* template and the first missing field, with no file written and no platform
\* call made; when no field is missing validate_data returns.
C11_MissingFieldRaisesFirst ==
    /\ (MissingFields # {} /\ tpc # "call")
          => /\ tpc = "raised"
             /\ terr = ValidationError(template, FirstMissing)
             /\ tfiles = {}
    /\ (MissingFields # {} /\ opc # "validate")
          => /\ opc = "raised"
             /\ oraised = ValidationError(template, FirstMissing)
             /\ trace = <<Event("validate_data", 0, "raised")>>
             /\ filesOnDisk = {}
             /\ ~notePublished
    /\ (MissingFields = {} /\ tpc # "call" /\ tcall = "validate_data")
          => (tpc = "returned" /\ terr = NoError)
    /\ (MissingFields = {} /\ tpc # "call") => terr.type # "ValueError"
    /\ (MissingFields = {} /\ opc # "validate")
          => trace[1] = Event("validate_data", 0, "ok")

\* C11 witness: a thesis data object lacking thesis_text and portfolio_df was
\* rejected by generate_document and by publish_research, naming thesis_text.
C11_Witness ==
    /\ template = "thesis"
    /\ data_fields = {"company_info", "recommendation", "financials_df"}
    /\ tcall = "generate_document"
    /\ tpc = "raised"
    /\ terr.entity = "thesis_text"
    /\ opc = "raised"
    /\ oraised.entity = "thesis_text"
    /\ oraised.template = "thesis"

\* C12: constructing a client loads and validates the configuration first,
\* then sends exactly one handshake request, and only then can operations be
\* issued; a configuration failure sends no handshake and fails construction.
C12_ConfigThenOneHandshake ==
    /\ (ksent > 0) => kconfig.ok
    /\ (kpc # "load" /\ ~kconfig.ok) => (kpc = "failed" /\ ksent = 0 /\ ~kused)
    /\ kused => kpc = "ready"
    /\ (kpc = "ready") => ksent = 1

\* C12 witness: a query client was constructed and used without any
\* handshake request having been sent.
C12_Witness ==
    /\ kclient = "RMSBQL"
    /\ kpc = "ready"
    /\ kused
    /\ ksent = 0

\* C13: with config_path given only that file is read and its contents are
\* what is returned; with the directory alone every key of the environment
\* file overrides the base file's, every other key keeps its base value, and
\* a missing environment file is not an error.
C13_PathAloneElseEnvOverBase ==
    (kpc # "load") =>
        /\ has_path =>
              /\ kconfig.reads = <<"path">>
              /\ kconfig.ok => kconfig.config = pathf.map
        /\ (~has_path /\ kconfig.ok) =>
              /\ DOMAIN kconfig.config = DOMAIN basef.map \cup DOMAIN envf.map
              /\ \A k \in DOMAIN kconfig.config :
                    kconfig.config[k] = IF k \in DOMAIN envf.map
                                        THEN envf.map[k] ELSE basef.map[k]
        /\ (~has_path /\ envf = NoFile /\ basef.state = "ok")
              => /\ kconfig.error \notin {"open", "parse"}
                 /\ kconfig.reads = <<"base">>
                 /\ kconfig.ok => kconfig.config = basef.map

\* C13 witness: a directory load returned a mapping whose key came from the
\* environment file and whose uuid and url came from the base file.
C13_Witness ==
    /\ ~has_path
    /\ kconfig.ok
    /\ kconfig.config["key"].src = "env"
    /\ kconfig.config["uuid"].src = "base"
    /\ kconfig.config["url"].src = "base"
    /\ "key" \in DOMAIN basef.map

C15_CdeUploadOnlyWhenAskedAndNonEmpty ==
    /\ Len(cdeCalls) <= 1
    /\ (cdeCalls # <<>>)
          => /\ upload_cde
             /\ cde_rows > 0
             /\ cdeCalls[1] = [rows |-> cde_rows, max_workers |-> 10, batch_size |-> 25]
    /\ ("cde" \in okeys) <=> (cdeCalls # <<>>)
    /\ (opc = "returned")
          => /\ {"documents", "entities", "note"} \subseteq okeys
             /\ (upload_cde /\ cde_rows > 0) <=> (cdeCalls # <<>>)

\* C15 witness: a workflow asked to upload whose prepared frame was empty has
\* returned without a CDE call and without a cde entry.
C15_Witness ==
    /\ opc = "returned"
    /\ upload_cde
    /\ cde_rows = 0
    /\ cdeCalls = <<>>
    /\ okeys = {"documents", "entities", "note"}

\* Requests of the staging of file i, in the order sent.
StagingOf(i) == SelectSeq(sent, LAMBDA e : e.kind # "createNote" /\ e.file = i)
AcceptedParts(i) == SelectSeq(sent, LAMBDA e : e.kind = "part" /\ e.file = i /\ e.ok)
\* ceil(encoded size / part size) of a staged file
PartsNeeded(i) ==
    LET n == b64len(attachments[i])
        ps == staged[i].part_size
    IN IF n % ps = 0 THEN n \div ps ELSE n \div ps + 1
RECURSIVE ConcatData(_)
ConcatData(s) == IF s = <<>> THEN <<>> ELSE Head(s).data \o ConcatData(Tail(s))

\* C16: the create-note request is sent only after every attachment, in the
\* order of the file paths, was staged completely (prepare request and all of
\* its parts accepted); its payload lists the attachment ids in that order;
\* when staging fails create_note raises and no create-note request is sent.
C16_AttachmentsStagedBeforeNote ==
    /\ \A p \in 1..Len(sent) :
          (sent[p].kind = "createNote") =>
              /\ Len(staged) = Len(attachments)
              /\ sent[p].data = [i \in 1..Len(attachments) |-> staged[i].id]
              /\ \A i \in 1..Len(attachments) :
                    /\ staged[i].file = i
                    /\ \E q \in 1..(p - 1) :
                          sent[q].kind = "prepare" /\ sent[q].file = i /\ sent[q].ok
                    /\ \A j \in 0..(PartsNeeded(i) - 1) :
                          \E q \in 1..(p - 1) :
                              /\ sent[q].kind = "part" /\ sent[q].file = i
                              /\ sent[q].index = j /\ sent[q].ok
              /\ \A q \in (p + 1)..Len(sent) : sent[q].kind = "createNote"
    /\ \A q1 \in 1..Len(sent), q2 \in 1..Len(sent) :
          (q1 < q2 /\ sent[q2].kind # "createNote") => sent[q1].file <= sent[q2].file
    /\ (sent # <<>> /\ ~sent[Len(sent)].ok) => npc = "raised"
    /\ (npc = "raised" /\ cur <= Len(attachments))
          => /\ nerr # "none"
             /\ \A p \in 1..Len(sent) : sent[p].kind # "createNote"
    /\ (npc \in {"create", "returned"}) => cur = Len(attachments) + 1
    /\ \A i \in 1..Len(attachments) :
          (attachments[i] = Unreadable /\ (cur > i \/ (cur = i /\ npc # "stage")))
              => (npc = "raised" /\ cur = i)

\* C16 witness: a note with two attachments, the first uploaded in several
\* parts, was created with the two ids in path order.
C16_Witness ==
    /\ npc = "returned"
    /\ Len(attachments) = 2
    /\ payload = <<1, 2>>
    /\ staged[2].id = 2
    /\ Len(AcceptedParts(1)) >= 2
    /\ Len(AcceptedParts(2)) >= 1

\* C17: for each file the prepare request comes before any part; parts go out
\* with indices 0, 1, ... in increasing order, the next index only after the
\* previous part was accepted; of a staged file exactly ceil(encoded size /
\* part size) parts were accepted, every one but the last of part-size length,
\* and joined in index order they are the encoded content.
C17_PartsInOrderAndComplete ==
    \A i \in 1..Len(attachments) :
        LET S == StagingOf(i)
            A == AcceptedParts(i)
        IN /\ (S # <<>>) => S[1].kind = "prepare"
           /\ \A q \in 1..Len(S) :
                 (S[q].kind = "part") =>
                     /\ \E r \in 1..(q - 1) : S[r].kind = "prepare" /\ S[r].ok
                     /\ i <= Len(staged)
                     /\ S[q].data # <<>>
                     /\ Len(S[q].data) <= staged[i].part_size
                     /\ (S[q].index < PartsNeeded(i) - 1)
                           => Len(S[q].data) = staged[i].part_size
                     /\ IF S[q - 1].kind = "prepare"
                        THEN S[q].index = 0
                        ELSE IF S[q - 1].ok
                        THEN S[q].index = S[q - 1].index + 1
                        ELSE S[q].index = S[q - 1].index
           /\ (i < cur /\ attachments[i] # Unreadable) =>
                 /\ Len(A) = PartsNeeded(i)
                 /\ \A j \in 1..Len(A) : A[j].index = j - 1
                 /\ ConcatData(A) = Encoded(i)

\* C17 witness: a file whose encoded content is 8 symbols was staged with
\* part size 3: parts of 3, 3 and 2 symbols, one of them sent twice.
C17_Witness ==
    /\ Len(attachments) >= 1
    /\ cur > 1
    /\ b64len(attachments[1]) = 8
    /\ staged[1].part_size = 3
    /\ Len(AcceptedParts(1)) = 3
    /\ Len(AcceptedParts(1)[3].data) = 2
    /\ Len(StagingOf(1)) > 4

\* The two input forms the documentation names, after upper-casing:
\* 'TICKER' and 'TICKER CORP'.
TwoForms(parts) == Len(parts) = 1 \/ (Len(parts) = 2 /\ parts[2] = "CORP")

\* C18: find_corp_ticker accepts, after upper-casing, exactly the forms
\* 'TICKER' and 'TICKER CORP'; every other form raises a validation error
\* before any search request is sent; a result is returned only if its
\* metadata equals the base ticker and its subtype is CORP, otherwise the
\* result is absent.
C18_OnlyTickerAndTickerCorp ==
    fpc \in {"search", "returned", "raised"} =>
        LET parts == ticker_parts(ticker)
        IN /\ TwoForms(parts) => ferr # "ValidationError"
           /\ ~TwoForms(parts) =>
                /\ fpc = "raised"
                /\ ferr = "ValidationError"
                /\ fsearches = 0
           /\ (fpc = "returned" /\ fresult # NoHit) =>
                /\ fresult.metadata = parts[1]
                /\ fresult.subtype = "CORP"
           /\ (fpc = "returned" /\ fresult = NoHit /\ TwoForms(parts)) =>
                \A i \in 1..Len(hits) : ~item_matches(hits[i], parts[1])

\* 'corp aal' is searched for and its first AAL CORP item returned
C18_Witness ==
    /\ ticker = <<"corp", "aal">>
    /\ fpc = "returned"
    /\ fsearches >= 1
    /\ fresult # NoHit
    /\ fresult.metadata = "AAL"

\* The combinations of type and subtype a BBG_USER may have.
ValidCombination(r) ==
    \/ r.type = "WORKGROUPS" /\ r.subtype = "UUID"
    \/ r.type \in {"PEOPLE", "AUTHORS"} /\ r.subtype = "None"

\* C19: no BBG_USER record exists with an invalid type/subtype combination:
\* constructing WORKGROUPS with a subtype other than UUID (absent included)
\* fails, constructing PEOPLE or AUTHORS with a subtype fails, constructing
\* WORKGROUPS with UUID succeeds, and no later assignment to type or subtype
\* produces an invalid combination.
C19_NoInvalidTypeSubtype ==
    upc \in {"live", "failed"} =>
        /\ (uargs.type = "WORKGROUPS" /\ uargs.subtype # "UUID") => upc = "failed"
        /\ (uargs.type \in {"PEOPLE", "AUTHORS"} /\ uargs.subtype # "None") =>
                upc = "failed"
        /\ (uargs.type = "WORKGROUPS" /\ uargs.subtype = "UUID" /\ ~uargs.extra) =>
                upc = "live"
        /\ upc = "live" => ValidCombination(urec)

\* an assignment that raised and yet left PEOPLE with subtype UUID
C19_Witness ==
    /\ upc = "live"
    /\ uargs.type = "WORKGROUPS"
    /\ uassigns = 1
    /\ uerr = "ValidationError"
    /\ urec.type = "PEOPLE"
    /\ urec.subtype = "UUID"

\* C19, at construction only: the record exists exactly for the valid
\* combinations.
C19_ConstructionValidated ==
    (upc \in {"live", "failed"} /\ uassigns = 0) =>
        /\ upc = "live" <=> (ValidCombination(uargs) /\ ~uargs.extra)
        /\ upc = "live" => urec = uargs

\* Names of the result items that carry columns and no exception information.
FrameNames == {bql_res.results[i].name :
                 i \in {j \in 1..Len(bql_res.results) : bql_res.results[j].shape = "frame"}}

\* C20: executeBQLRequest returns an empty mapping when the response carries
\* errorMessages; otherwise it returns one entry, keyed by the item's name,
\* for every result item without exception information, and an
\* exception-bearing or malformed item is left out without making the call
\* fail.
C20_ErrorsEmptyElseFramesByName ==
    (bpc \in {"returned", "raised"} /\ bql_res.state = "ok") =>
        /\ bpc = "returned"
        /\ bql_res.errorMessages => response_frames_dict = <<>>
        /\ ~bql_res.errorMessages =>
            /\ DOMAIN response_frames_dict = FrameNames
            /\ \A n \in DOMAIN response_frames_dict :
                LET item == bql_res.results[response_frames_dict[n]]
                IN item.name = n /\ item.shape = "frame"

\* an item with neither sirExceptions nor columns, after a well-formed one,
\* ends the call with KeyError
C20_Witness ==
    /\ bpc = "raised"
    /\ berr = "KeyError"
    /\ ~bql_res.errorMessages
    /\ Len(bql_res.results) = 2
    /\ bql_res.results[1].shape = "frame"
    /\ bql_res.results[2].shape = "no_columns"
    /\ DOMAIN response_frames_dict = {bql_res.results[1].name}

\* C20 for responses whose items are all well formed: the returned mapping
\* is as claimed.
C20_WellFormedItems ==
    (/\ bpc \in {"returned", "raised"}
     /\ bql_res.state = "ok"
     /\ \A i \in 1..Len(bql_res.results) :
            bql_res.results[i].shape \in {"frame", "partial", "exception"}) =>
        /\ bpc = "returned"
        /\ bql_res.errorMessages => response_frames_dict = <<>>
        /\ ~bql_res.errorMessages =>
            /\ DOMAIN response_frames_dict = FrameNames
            /\ \A n \in DOMAIN response_frames_dict :
                bql_res.results[response_frames_dict[n]].shape = "frame"

\* C21: for every registered template the keys of the mapping returned by
\* generate_document are exactly the file types its output_file_types
\* property declares; for CompanyModelTemplate both are xlsx and pdf.
C21_ReturnedKeysAreDeclaredTypes ==
    (tcall = "generate_document" /\ tpc = "returned") =>
        /\ tkeys = output_file_types(template)
        /\ template = "company_model" =>
            /\ tkeys = {"xlsx", "pdf"}
            /\ output_file_types(template) = {"xlsx", "pdf"}

\* CompanyModelTemplate.generate_document returned its mapping
C21_Witness ==
    /\ tcall = "generate_document"
    /\ tpc = "returned"
    /\ template = "company_model"
    /\ tkeys = {"xlsx", "pdf"}
    /\ tfiles = {"xlsx", "pdf"}

\* C21 for the three templates that produce a docx: the returned keys are the
\* declared types.
C21_DocxTemplates ==
    (tcall = "generate_document" /\ tpc = "returned" /\ template # "company_model") =>
        tkeys = output_file_types(template)

\* Tasks that are inside the re-authentication: the synchronizer answer has
\* arrived and its values are being stored.
Reauthenticating == {t \in Tasks : wpc[t] \in {"store_token", "store_uri"}}

\* C22: within one CDE batch re-authentication is not mutually excluded: a
\* task whose request received 401 can always go on to the handshake, whatever
\* the other tasks are doing, so several tasks can be re-authenticating at the
\* same time; each task re-authenticates at most once, so a batch triggers at
\* most one re-authentication per row in flight.
C22_ReauthNotMutuallyExcluded ==
    wclient = "CDEUploader" =>
        /\ \A t \in 1..ntasks : wpc[t] = "refresh" => ENABLED SynchronizerGet(t)
        /\ handshakes - 1 <= ntasks
        /\ handshakes - 1 = Cardinality({t \in Tasks : fresh[t] # 0})

\* two tasks of one batch are storing the values of two different handshakes
C22_Witness ==
    /\ wclient = "CDEUploader"
    /\ Cardinality(Reauthenticating) >= 2
    /\ handshakes = 3
    /\ fresh[1] # fresh[2]

\* C23: a write request resent after a 401-triggered re-authentication carries
\* the synchronizer token and URI that re-authentication obtained, not the
\* ones held before it.
C23_ResendCarriesFreshToken ==
    \A t \in 1..ntasks :
        Len(wsent[t]) = 2 =>
            /\ wsent[t][2].token = fresh[t]
            /\ wsent[t][2].uri = fresh[t]

\* a note publisher write was resent with the token and URI of the
\* constructor's handshake after the re-authentication had stored new ones
C23_Witness ==
    /\ wclient = "NotePublisher"
    /\ wpc[1] = "done"
    /\ Len(wsent[1]) = 2
    /\ fresh[1] = 2
    /\ credentials = [token |-> 2, uri |-> 2]
    /\ wsent[1][2] = [token |-> 1, uri |-> 1]

\* C24: every CDE request sent by any worker task carries a synchronizer
\* token and a synchronizer URI that one and the same handshake response
\* returned, also while other tasks re-authenticate.
C24_TokenAndUriFromOneHandshake ==
    wclient = "CDEUploader" =>
        \A t \in 1..ntasks : \A i \in 1..Len(wsent[t]) :
            wsent[t][i].token = wsent[t][i].uri

\* task 2 sent a request whose token is of task 1's re-authentication and
\* whose URI is still the constructor's
C24_Witness ==
    /\ wclient = "CDEUploader"
    /\ fresh[1] = 2
    /\ Len(wsent[2]) >= 1
    /\ wsent[2][1] = [token |-> 2, uri |-> 1]

\* C25: if the re-authentication triggered by a 401 fails, the original
\* request is not resent and the operation fails with the client's error.
C25_FailedReauthFailsWithClientError ==
    (Finished(1) /\ reauths[1] = 1 /\ ~refreshed[1]) =>
        /\ Len(replies[1]) = 1
        /\ rpc[1] = "raised"
        /\ exc[1] = "ClientError"

\* the CDE uploader's handshake was answered without the token keys: the
\* request was not resent and KeyError left _make_request
C25_Witness ==
    /\ client = "CDEUploader"
    /\ rpc[1] = "raised"
    /\ replies[1] = <<401>>
    /\ reauths[1] = 1
    /\ ~refreshed[1]
    /\ exc[1] = "KeyError"

\* C25 without the error's class: after a failed re-authentication the request
\* is never resent and the call ends with an exception.
C25_NotResentAndRaised ==
    (Finished(1) /\ reauths[1] = 1 /\ ~refreshed[1]) =>
        /\ Len(replies[1]) = 1
        /\ rpc[1] = "raised"
        /\ exc[1] # "none"

\* C25 inside a batch: the row whose re-authentication failed gets a failed
\* result and was not resent, and the returned list still has a result for
\* every row.
C25_BatchRowOnly ==
    /\ \A r \in Rows :
        (rpc[r] = "done" /\ reauths[r] = 1 /\ ~refreshed[r]) =>
            /\ ~result[r].success
            /\ Len(replies[r]) = 1
    /\ mpc = "returned" =>
        \A r \in 1..nRows : \E i \in 1..Len(results) : results[i].row = r

\* C26: a batch_upload_cde or batch_delete_cde call whose input splits into
\* K >= 1 batches sleeps batch_delay exactly K-1 times, once after each batch
\* but the last, always after that batch has drained and before the next one
\* starts; with an empty input it never sleeps and returns an empty list.
C26_SleepsBetweenBatches ==
    LET K == (nRows + batch_size - 1) \div batch_size
        Between == IF K = 0 THEN 0 ELSE K - 1
    IN mpc # "direct" =>
        /\ sleeps <= Between
        /\ mpc = "returned" => sleeps = Between
        /\ (mpc = "returned" /\ K = 0) => results = <<>>
        /\ batch >= 1 => sleeps = batch - 1
        /\ mpc = "sleep" =>
            \A r \in 1..nRows :
                IF (r - 1) \div batch_size < batch
                THEN rpc[r] \in {"done", "crashed"}
                ELSE rpc[r] = "idle"

\* three rows in batches of one have been processed with two sleeps
C26_Witness ==
    /\ mpc = "returned"
    /\ nRows = 3
    /\ batch_size = 1
    /\ sleeps = 2
    /\ Len(results) = 3

\* C27: in the returned list every result of a row of batch k comes before
\* every result of a row of batch k+1; only the order among rows of one batch
\* is left open.
C27_ResultsInBatchOrder ==
    mpc # "direct" =>
        \A i \in 1..Len(results), j \in 1..Len(results) :
            i < j => (results[i].row - 1) \div batch_size
                        <= (results[j].row - 1) \div batch_size

\* batch 1 completed as row 2 then row 1, and row 3 of batch 2 follows both
C27_Witness ==
    /\ mpc = "returned"
    /\ batch_size = 2
    /\ Len(results) = 3
    /\ results[1].row = 2
    /\ results[2].row = 1
    /\ results[3].row = 3

\* C28: publish_research returns normally, with no error entry in its
\* results, when the note was published but some or all CDE rows failed to
\* upload: the failures appear only as failed entries of the cde
\* upload_results and never make the workflow raise.
C28_CdeRowFailuresDoNotRaise ==
    cdeCalls # <<>> =>
        /\ notePublished
        /\ opc \in {"return", "returned"}
        /\ "error" \notin okeys
        /\ oerror = NoError
        /\ oraised = NoError
        /\ "cde" \in okeys
        /\ Len(upload_results) = cde_rows
        /\ \A r \in 1..cde_rows : upload_results[r] \in {"success", "failed"}

\* the workflow returned although every CDE row failed
C28_Witness ==
    /\ opc = "returned"
    /\ notePublished
    /\ cde_rows >= 1
    /\ Len(upload_results) = cde_rows
    /\ \A r \in 1..cde_rows : upload_results[r] = "failed"
    /\ okeys = {"documents", "entities", "note", "cde"}

\* The clients constructed by the _initialize_clients calls of a trace.
RECURSIVE Constructions(_)
Constructions(t) ==
    IF t = <<>> THEN 0
    ELSE (IF Head(t).call = "_initialize_clients" THEN Head(t).arg ELSE 0)
         + Constructions(Tail(t))

\* C29: across a sequence of publish_research calls on one orchestrator no
\* client is constructed before the first call that reaches
\* _initialize_clients; each of the three clients is constructed at most once
\* and then reused; after a failed construction the clients built so far stay
\* cached and the next use constructs only the missing ones.
C29_ClientsConstructedOnceAndCached ==
    LET inits == {i \in DOMAIN trace : trace[i].call = "_initialize_clients"}
    IN /\ (inits = {}) => (clientsBuilt = {})
       /\ Constructions(trace) = Cardinality(clientsBuilt)
       /\ \E n \in 0..Len(ClientOrder) :
            clientsBuilt = {ClientOrder[i] : i \in 1..n}
       /\ \A i \in inits :
            /\ trace[i].out = "ok"
                  => Constructions(SubSeq(trace, 1, i)) = Len(ClientOrder)
            /\ trace[i].arg <= Len(ClientOrder) - Constructions(SubSeq(trace, 1, i - 1))

\* a call built one client and failed on the second, the next call built the
\* two missing ones, and a third call constructed none and went on to publish
C29_Witness ==
    /\ \E i, j, k \in DOMAIN trace :
        /\ i < j /\ j < k
        /\ trace[i] = Event("_initialize_clients", 1, "raised")
        /\ trace[j] = Event("_initialize_clients", 2, "ok")
        /\ trace[k] = Event("_initialize_clients", 0, "ok")
    /\ clientsBuilt = AllClients
    /\ notePublished

\* The file ids of a list of attachments, in order.
IdsOf(atts) == [i \in DOMAIN atts |-> atts[i].fileId]

\* The listed attachments that meet the file-type criterion and carry a file id.
Wanted ==
    SelectSeq(xatts, LAMBDA a :
        /\ a.fileId # ""
        /\ \/ file_types = StrArg("All")
           \/ \E i \in DOMAIN file_types.val : file_types.val[i] = a.extension)

\* C30: when transplantDocAttachments returns, its value is the list of file
\* ids, in metadata order, of the attachments that pass the file-type filter
\* and have a non-empty file id, each saved under base_path named by its file
\* id; attachments without a file id were skipped; when nothing was saved the
\* value is None and not an empty list.
C30_ReturnsSavedIdsInMetadataOrder ==
    xpc = "returned" =>
        /\ xerr = "none"
        /\ xret # <<>>
        /\ xret = IF Wanted = <<>> THEN None ELSE IdsOf(Wanted)
        /\ xdisk = {[dir |-> base_path, name |-> Wanted[i].fileId] : i \in DOMAIN Wanted}

\* a call over three listed attachments returned one id: one attachment was
\* filtered out, one had no file id
C30_Witness ==
    /\ xpc = "returned"
    /\ Len(xatts) = 3
    /\ file_types = StrArg(".pdf")
    /\ xatts[1] = [fileId |-> "f2", extension |-> ".xlsx"]
    /\ xatts[2] = [fileId |-> "", extension |-> ".pdf"]
    /\ xatts[3] = [fileId |-> "f1", extension |-> ".pdf"]
    /\ xret = <<"f1">>

\* a call whose attachments were all filtered out or skipped returned None
C30_NothingSaved ==
    (xpc = "returned" /\ xdisk = {}) => xret = None

====
